---- MODULE Spec2Model ----
(***************************************************************************)
(* Verification model of the data-expectation validation service.          *)
(*                                                                         *)
(*   SpecRules   server/validators/rule_loader.py  (RuleLoader)            *)
(*   SpecExpand  server/validators/instrument_validator.py (expansion)     *)
(*   SpecFormat  server/services/validation_result_formatter.py            *)
(*   SpecBatch   generator/src/core/validator.py + database_repository.py  *)
(*   SpecClient  generator/src/api/api_client.py                           *)
(*   SpecSetup   server/validators/instrument_validator.py (data source)   *)
(*   SpecCsv     server/loaders/csv_loader.py                              *)
(*   SpecWorkers generator/src/models/validation_summary.py                *)
(*   SpecCli     generator/src/cli/cli.py                                  *)
(*   SpecPool    server/loaders/database_loader.py + database_service.py   *)
(*   SpecSvc     server/controllers/rule_controller.py + processors        *)
(*   SpecInst    server/controllers/instrument_controller.py (get_service) *)
(*                                                                         *)
(* Every specification ranges over all variables of the module; the        *)
(* variables of the other components keep their initial value.             *)
(***************************************************************************)
EXTENDS Integers, Sequences, FiniteSets, TLC

VARIABLES
    \* ---- RuleLoader -------------------------------------------------
    fs,           \* the rules directory and the legacy single file on disk
    use_modular,  \* RuleLoader._use_modular
    config,       \* RuleLoader._config (parsed single file, cached)
    call,         \* the last load_* call: operation, arguments, outcome
    \* ---- InstrumentValidator._expand_rules_with_multiple_columns -----
    rules_in,     \* argument `rules`
    expanded,     \* returned list
    \* ---- ValidationResultFormatter.format_results ---------------------
    vr,           \* argument `validation_results` (engine output)
    report,       \* returned response dictionary
    \* ---- BatchValidator / ValidationRepository ------------------------
    bv,           \* BatchValidator: save_to_database, service, combinations
    db,           \* the three tables as seen by a new reader
    summary,      \* ValidationSummary of the region
    sweep,        \* validate_region: phase, next combination, API outcomes
    \* ---- ValidationAPIClient -----------------------------------------
    http,         \* answers the API will give, requests issued, call outcome
    \* ---- InstrumentValidator._setup_data_source -----------------------
    setup,        \* attempts made, objects held by the validator, outcome
    \* ---- CSVDataLoader ------------------------------------------------
    csv,          \* cache map, lock, clock, threads inside load, disk reads
    \* ---- ValidationSummary.add_result under threads -------------------
    workers,      \* per thread: result to add, position inside add_result
    \* ---- ValidationCLI.run_validation ---------------------------------
    cli,          \* command line, regions done, exit status
    \* ---- connection pools --------------------------------------------
    pool,         \* checked-out connections of the loader and the repository
    \* ---- ValidationService per request --------------------------------
    svc,          \* thread-local services, engine objects made per request
    \* ---- instrument_controller.get_service ---------------------------
    inst          \* _loader_factory, _services_cache, threads in get_service

ruleVars   == <<fs, use_modular, config, call>>
expandVars == <<rules_in, expanded>>
formatVars == <<vr, report>>
batchVars  == <<bv, db, summary, sweep>>
laterVars  == <<http, setup, csv, workers, cli, pool, svc, inst>>
vars == <<fs, use_modular, config, call, rules_in, expanded,
          vr, report, bv, db, summary, sweep,
          http, setup, csv, workers, cli, pool, svc, inst>>

None == "None"

(***************************************************************************)
(* Generic helpers                                                         *)
(***************************************************************************)
RECURSIVE SeqsUpTo(_, _)
SeqsUpTo(S, n) ==
    IF n = 0 THEN {<<>>}
    ELSE LET shorter == SeqsUpTo(S, n - 1)
         IN  shorter \cup {Append(s, x) : s \in {t \in shorter : Len(t) = n - 1}, x \in S}

Range(s) == {s[i] : i \in 1..Len(s)}

(***************************************************************************)
(* ======================  RuleLoader  =================================== *)
(***************************************************************************)

\* ---- bounds of the rule-loader inputs ----
MaxInclude == 2      \* longest `include:` list of the varied rule set
MaxCachedRules == 2  \* calls stop once the cached base_rules list is longer

Names == {"A", "B", "C"}           \* rule-set names that occur in requests/files
Products == {None, "stocks"}
Exchanges == {None, "XHKG"}
NameLists == {<<>>, <<"A">>, <<"B">>, <<"C">>, <<"B", "A">>}
CombinedNameLists == {<<>>, <<"A">>, <<"B", "A">>}

\* A rule dictionary.  `layer`/`loc`/`name`/`n` identify the document and the
\* position it was written at; `column`/`type` are the fields the override
\* semantics look at.
Rule(layer, loc, name, n) ==
    [layer |-> layer, loc |-> loc, name |-> name, n |-> n,
     column |-> "Symbol", type |-> "ExpectColumnValuesToMatchRegex"]

InlineRules == <<Rule("inline", 0, "-", 1)>>
InlineChoices == {None, "rules"}

\* Content of a layer file when it holds a rule list.
LayerRules(layer) ==
    IF layer = "base" THEN <<Rule("base", 0, "-", 1), Rule("base", 0, "-", 2)>>
    ELSE <<Rule(layer, 0, "-", 1)>>

\* What a file on disk can look like to _load_yaml_file and its callers.
\*   absent  : Path.exists() is false
\*   rules   : YAML list of rules
\*   empty   : only comments (yaml.safe_load gives None)
\*   notlist : well-formed YAML whose top level is not a list
\*   badyaml : yaml.YAMLError
FileKinds == {"absent", "rules", "empty", "notlist", "badyaml"}

\* Named rule-set definitions (value found under a name).
Undef == [kind |-> "undef", include |-> <<>>, rules |-> <<>>]
ListDef(loc, name) ==
    [kind |-> "list", include |-> <<>>, rules |-> <<Rule("custom", loc, name, 1)>>]
IncludeDef(loc, name, incl) ==
    [kind |-> "include", include |-> incl, rules |-> <<Rule("custom", loc, name, 9)>>]
IncludeStrDef(loc, name, n) ==
    [kind |-> "include_str", include |-> <<n>>, rules |-> <<Rule("custom", loc, name, 9)>>]
ScalarDef == [kind |-> "scalar", include |-> <<>>, rules |-> <<>>]

\* The eight places a named set is looked up in, in the order of the code.
\*  1 <product>/exchanges/<ex>/custom.yaml   2 <product>/exchanges/<ex>/combined.yaml
\*  3 <product>/custom.yaml                  4 <product>/combined.yaml
\*  5 custom.yaml                            6 combined.yaml
\*  7 custom/<name>.yaml                     8 custom/combined/<name>.yaml
Locs == 1..8

NoDefs == [n \in Names |-> Undef]
NoCustom == [l \in Locs |-> NoDefs]

NoConfigFile ==
    [exists |-> FALSE, has_base |-> FALSE, base_rules |-> <<>>,
     has_exchanges |-> FALSE, exchanges |-> {},
     has_custom |-> FALSE, custom_rules |-> NoDefs]

UnloadedConfig ==
    [loaded |-> FALSE, has_base |-> FALSE, base_rules |-> <<>>,
     has_exchanges |-> FALSE, exchanges |-> {},
     has_custom |-> FALSE, custom_rules |-> NoDefs]

\* Outcome of a call: a returned rule list, or a raised exception.  A raised
\* outcome carries the rules accumulated so far only inside load_combined_rules
\* (they are what an aliased list has grown to); callers see Err.  available:
\* the rule-set names listed in the message of a not-found error.
Ok(rules) == [ok |-> TRUE, rules |-> rules, err |-> None, available |-> {}]
Err(kind) == [ok |-> FALSE, rules |-> <<>>, err |-> kind, available |-> {}]
Fail(rules, kind) == [ok |-> FALSE, rules |-> rules, err |-> kind, available |-> {}]

Defined(d) == d.kind # "undef"

\* str.lower() on the exchange codes of the model
Lower(exchange) == IF exchange = "XHKG" THEN "xhkg" ELSE exchange

\* The rules directory of the model has one product folder and, inside it and
\* at the root, one exchange.
ProductFolder == "stock"
ExchangeFile == "xhkg"

_normalize_product_type(product_type) ==
    IF product_type = None THEN None
    ELSE IF product_type = "stocks" THEN "stock"
    ELSE IF product_type = "option" THEN "options"
    ELSE product_type

\* _load_yaml_file(file, allow_empty=True) followed by the checks every list
\* loader applies to it: missing or comment-only file -> [], unparseable YAML
\* or a non-list top level -> ValueError.
LoadRuleList(kind, layer) ==
    CASE kind = "absent"  -> Ok(<<>>)
      [] kind = "rules"   -> Ok(LayerRules(layer))
      [] kind = "empty"   -> Ok(<<>>)
      [] kind = "notlist" -> Err("invalid_rule_file")
      [] kind = "badyaml" -> Err("yaml_error")

_detect_modular_structure(f) == f.base # "absent"

\* Result: the configuration cached after the call; loaded = FALSE means the
\* call raised FileNotFoundError.
_load_config(cfg) ==
    IF cfg.loaded THEN cfg
    ELSE IF fs.cfg.exists
         THEN [loaded |-> TRUE, has_base |-> fs.cfg.has_base,
               base_rules |-> fs.cfg.base_rules,
               has_exchanges |-> fs.cfg.has_exchanges,
               exchanges |-> fs.cfg.exchanges,
               has_custom |-> fs.cfg.has_custom,
               custom_rules |-> fs.cfg.custom_rules]
         ELSE cfg

\* res: outcome; cfg: _config after the call; alias: the returned list IS the
\* list stored in _config['base_rules'] (no copy is taken).
load_base_rules(cfg) ==
    IF use_modular
    THEN [res |-> LoadRuleList(fs.base, "base"), cfg |-> cfg, alias |-> FALSE]
    ELSE LET c == _load_config(cfg)
         IN  IF ~c.loaded
             THEN [res |-> Err("config_not_found"), cfg |-> c, alias |-> FALSE]
             ELSE IF ~c.has_base
             THEN [res |-> Err("no_base_rules_key"), cfg |-> c, alias |-> FALSE]
             ELSE [res |-> Ok(c.base_rules), cfg |-> c, alias |-> TRUE]

LegacyExchangeRules(exchange) == <<Rule("exchange", 0, exchange, 1)>>

load_exchange_rules(cfg, exchange) ==
    IF use_modular
    THEN LoadRuleList(IF Lower(exchange) = ExchangeFile THEN fs.rootEx ELSE "absent",
                      "exchange")
    ELSE LET c == _load_config(cfg)
         IN  IF ~c.loaded THEN Err("config_not_found")
             ELSE IF ~c.has_exchanges THEN Ok(<<>>)
             ELSE IF exchange \notin c.exchanges THEN Err("exchange_not_in_config")
             ELSE Ok(LegacyExchangeRules(exchange))

load_product_type_rules(product_type) ==
    IF product_type = None THEN Ok(<<>>)
    ELSE LoadRuleList(IF _normalize_product_type(product_type) = ProductFolder
                      THEN fs.prodBase ELSE "absent",
                      "product")

load_product_type_exchange_rules(product_type, exchange) ==
    IF product_type = None \/ exchange = None THEN Ok(<<>>)
    ELSE LET here == _normalize_product_type(product_type) = ProductFolder
                     /\ Lower(exchange) = ExchangeFile
             new == IF here THEN fs.prodEx ELSE "absent"
             old == IF here THEN fs.oldProdEx ELSE "absent"
         IN  IF new # "absent" THEN LoadRuleList(new, "product_exchange")
             ELSE LoadRuleList(old, "old_product_exchange")

load_custom_rules(custom_rules) ==
    IF custom_rules = None THEN Ok(<<>>) ELSE Ok(InlineRules)

\* Variant: the product-level files are consulted before the exchange-level ones.
LookupProductFirst(rule_name, product_type, exchange) ==
    LET at(loc) == fs.custom[loc][rule_name]
        inProduct == product_type # None
                     /\ _normalize_product_type(product_type) = ProductFolder
        inExchange == exchange # None /\ inProduct /\ Lower(exchange) = ExchangeFile
    IN  IF inProduct /\ Defined(at(3)) THEN at(3)
        ELSE IF inProduct /\ Defined(at(4)) THEN at(4)
        ELSE IF inExchange /\ Defined(at(1)) THEN at(1)
        ELSE IF inExchange /\ Defined(at(2)) THEN at(2)
        ELSE IF Defined(at(5)) THEN at(5)
        ELSE IF Defined(at(6)) THEN at(6)
        ELSE IF Defined(at(7)) THEN at(7)
        ELSE IF Defined(at(8)) THEN at(8)
        ELSE Undef

\* Named-set lookup.  The exchange-level files are consulted only when both
\* exchange and product_type are given, the product-level files only when
\* product_type is given.  Undef stands for the `return None` at the end.
_load_custom_rule_file(rule_name, product_type, exchange) ==
    LET at(loc) == fs.custom[loc][rule_name]
        inProduct == product_type # None
                     /\ _normalize_product_type(product_type) = ProductFolder
        inExchange == exchange # None /\ inProduct /\ Lower(exchange) = ExchangeFile
    IN  IF inExchange /\ Defined(at(1)) THEN at(1)
        ELSE IF inExchange /\ Defined(at(2)) THEN at(2)
        ELSE IF inProduct /\ Defined(at(3)) THEN at(3)
        ELSE IF inProduct /\ Defined(at(4)) THEN at(4)
        ELSE IF Defined(at(5)) THEN at(5)
        ELSE IF Defined(at(6)) THEN at(6)
        ELSE IF Defined(at(7)) THEN at(7)
        ELSE IF Defined(at(8)) THEN at(8)
        ELSE Undef

RECURSIVE _resolve_custom_rule_set(_, _, _, _, _)
RECURSIVE ResolveIncludes(_, _, _, _, _)
RECURSIVE ResolveUnvisited(_, _, _, _, _)

RECURSIVE ResolveIncludesSharingVisited(_, _, _, _, _)
\* Variant: the includes of a document share one `visited` set, so a name
\* resolved for an earlier include counts as visited for the later ones.
ResolveIncludesSharingVisited(cfg, names, visited, product_type, exchange) ==
    IF names = <<>> THEN Ok(<<>>)
    ELSE LET first == _resolve_custom_rule_set(cfg, Head(names), visited,
                                               product_type, exchange)
         IN  IF ~first.ok THEN first
             ELSE LET rest == ResolveIncludesSharingVisited(
                                  cfg, Tail(names), visited \cup {Head(names)},
                                  product_type, exchange)
                  IN  IF rest.ok THEN Ok(first.rules \o rest.rules) ELSE rest

\* The `for included_rule_name in rule_set['include']` loop: each include is
\* resolved with a copy of `visited`, results are appended in declaration
\* order, the first failure is re-raised (its message wrapped, kind kept).
ResolveIncludes(cfg, names, visited, product_type, exchange) ==
    IF names = <<>> THEN Ok(<<>>)
    ELSE LET first == _resolve_custom_rule_set(cfg, Head(names), visited,
                                               product_type, exchange)
         IN  IF ~first.ok THEN first
             ELSE LET rest == ResolveIncludes(cfg, Tail(names), visited,
                                              product_type, exchange)
                  IN  IF rest.ok THEN Ok(first.rules \o rest.rules) ELSE rest

\* Variant: the document's own rules are put in front of the included ones.
InlineRulesFirst(rules, rule_set) == rule_set.rules \o rules

\* The loop over the non-`include` keys of the document: its own rules are
\* appended after everything the includes contributed.
WithInlineRules(rules, rule_set) == rules \o rule_set.rules

\* get_available_custom_rule_sets and get_available_combined_rule_sets taken
\* together (modular structure): the names written in the files of the
\* scope, read with the same conditions as the lookup.
get_available_custom_rule_sets(product_type, exchange) ==
    LET inProduct == product_type # None
                     /\ _normalize_product_type(product_type) = ProductFolder
        inExchange == exchange # None /\ inProduct /\ Lower(exchange) = ExchangeFile
    IN  {n \in Names :
            \/ inExchange /\ (Defined(fs.custom[1][n]) \/ Defined(fs.custom[2][n]))
            \/ inProduct /\ (Defined(fs.custom[3][n]) \/ Defined(fs.custom[4][n]))
            \/ \E l \in 5..8 : Defined(fs.custom[l][n])}

\* Variant: a set that is not found contributes no rules.
MissingIsEmpty(c, product_type, exchange) == Ok(<<>>)

\* The ValueError "Custom rule set ... not found. Available ...": in the
\* modular structure with the names of the scope, in the single file with the
\* keys of its custom_rules section.
RuleSetNotFound(c, product_type, exchange) ==
    [Err("not_found") EXCEPT !.available =
        IF use_modular THEN get_available_custom_rule_sets(product_type, exchange)
        ELSE {n \in Names : Defined(c.custom_rules[n])}]

\* Body of _resolve_custom_rule_set after rule_name was added to `visited`.
ResolveUnvisited(cfg, rule_name, visited, product_type, exchange) ==
    LET path == visited \cup {rule_name}
        c == IF use_modular THEN cfg ELSE _load_config(cfg)
        rule_set == IF use_modular
                    THEN _load_custom_rule_file(rule_name, product_type, exchange)
                    ELSE c.custom_rules[rule_name]
    IN  IF use_modular /\ ~Defined(rule_set)
        THEN RuleSetNotFound(c, product_type, exchange)
        ELSE IF ~use_modular /\ ~c.loaded THEN Err("config_not_found")
        ELSE IF ~use_modular /\ ~c.has_custom THEN Err("no_custom_section")
        ELSE IF ~use_modular /\ ~Defined(rule_set)
        THEN RuleSetNotFound(c, product_type, exchange)
        ELSE IF rule_set.kind \in {"include", "include_str"}
        THEN LET included == ResolveIncludes(c, rule_set.include, path,
                                             product_type, exchange)
             IN  IF included.ok THEN Ok(WithInlineRules(included.rules, rule_set))
                 ELSE included
        ELSE IF rule_set.kind # "list" THEN Err("invalid_set")
        ELSE Ok(rule_set.rules)

\* Variant: a name met again on the path contributes nothing instead of raising.
ResolveSkippingRevisits(cfg, rule_name, visited, product_type, exchange) ==
    IF rule_name \in visited THEN Ok(<<>>)
    ELSE ResolveUnvisited(cfg, rule_name, visited, product_type, exchange)

\* `visited` is the set of names on the path from the requested name down to
\* (not including) rule_name; cfg is the loader's cached single-file config.
_resolve_custom_rule_set(cfg, rule_name, visited, product_type, exchange) ==
    IF rule_name \in visited THEN Err("circular")
    ELSE ResolveUnvisited(cfg, rule_name, visited, product_type, exchange)

RECURSIVE load_custom_rules_from_yaml(_, _, _, _)
load_custom_rules_from_yaml(cfg, custom_rule_names, product_type, exchange) ==
    IF custom_rule_names = None \/ custom_rule_names = <<>> THEN Ok(<<>>)
    ELSE LET first == _resolve_custom_rule_set(cfg, Head(custom_rule_names), {},
                                               product_type, exchange)
         IN  IF ~first.ok THEN first
             ELSE LET rest == load_custom_rules_from_yaml(cfg, Tail(custom_rule_names),
                                                          product_type, exchange)
                  IN  IF rest.ok THEN Ok(first.rules \o rest.rules) ELSE rest

\* One `if <given>: rules.extend(<loader>())` step.  acc is the outcome so far;
\* a loader that raises ends the call, unless the step sits in a
\* `try ... except (ValueError, FileNotFoundError): pass`.
Extend(acc, given, loaded, swallow) ==
    IF ~acc.ok \/ ~given THEN acc
    ELSE IF loaded.ok THEN Ok(acc.rules \o loaded.rules)
    ELSE IF swallow THEN acc
    ELSE [loaded EXCEPT !.rules = acc.rules]

\* What load_combined_rules leaves behind: the outcome for the caller and the
\* cached configuration, whose base_rules list is the one that was extended
\* when load_base_rules handed out the cached list itself.
Combined(b, last) ==
    [res |-> IF last.ok THEN last ELSE [last EXCEPT !.rules = <<>>],
     cfg |-> IF b.alias THEN [b.cfg EXCEPT !.base_rules = last.rules] ELSE b.cfg]

\* res: what the caller gets; cfg: _config after the call.  `rules` starts as
\* the list load_base_rules returned and every layer is appended to it with
\* list.extend, so when that list is the cached one (alias) the cache holds,
\* after the call, everything that was appended before it returned or raised.
load_combined_rules(cfg, exchange, custom_rules, custom_rule_names, product_type) ==
    LET b  == load_base_rules(cfg)
        s2 == Extend(b.res, product_type # None,
                     load_product_type_rules(product_type), TRUE)
        s3 == Extend(s2, exchange # None,
                     load_exchange_rules(b.cfg, exchange), FALSE)
        s4 == Extend(s3, product_type # None /\ exchange # None,
                     load_product_type_exchange_rules(product_type, exchange), TRUE)
        s5 == Extend(s4, custom_rule_names # <<>>,
                     load_custom_rules_from_yaml(b.cfg, custom_rule_names,
                                                 product_type, exchange), FALSE)
        s6 == Extend(s5, custom_rules # None, load_custom_rules(custom_rules), FALSE)
    IN  Combined(b, s6)

(***************************************************************************)
(* Rules directories and single files the loader is run on                 *)
(***************************************************************************)
LayerFiles == {"base", "prodBase", "rootEx", "prodEx", "oldProdEx"}
OddKinds == {"empty", "notlist", "badyaml"}

Fs(layers, custom, cfg) ==
    [base |-> layers["base"], prodBase |-> layers["prodBase"],
     rootEx |-> layers["rootEx"], prodEx |-> layers["prodEx"],
     oldProdEx |-> layers["oldProdEx"], custom |-> custom, cfg |-> cfg]

DefaultCustom ==
    [l \in Locs |-> [n \in Names |->
        IF l = 5 /\ n = "A" THEN ListDef(5, "A")
        ELSE IF l = 6 /\ n = "B" THEN IncludeDef(6, "B", <<"A">>)
        ELSE Undef]]

\* every presence/absence of the layer files, at most one of them empty or
\* malformed; base.yaml exists (modular mode)
LayerFamily ==
    {Fs(f, DefaultCustom, NoConfigFile) :
        f \in {g \in [LayerFiles -> FileKinds] :
                  /\ g["base"] # "absent"
                  /\ Cardinality({l \in LayerFiles : g[l] \in OddKinds}) <= 1}}

AllLayers == [l \in LayerFiles |-> IF l = "oldProdEx" THEN "absent" ELSE "rules"]
BaseOnly  == [l \in LayerFiles |-> IF l = "base" THEN "rules" ELSE "absent"]
NoLayers  == [l \in LayerFiles |-> "absent"]

\* every assignment of the locations that define A
PriorityFamily ==
    {Fs(AllLayers,
        [l \in Locs |-> [n \in Names |->
            IF n = "A" /\ l \in S THEN ListDef(l, "A")
            ELSE IF n = "B" /\ l = 6 THEN IncludeDef(6, "B", <<"A">>)
            ELSE Undef]],
        NoConfigFile) : S \in SUBSET Locs}

\* include graphs over A, B, C, all written in the root combined.yaml
GraphA == {IncludeDef(6, "A", incl) : incl \in SeqsUpTo(Names, MaxInclude)}
GraphB == {Undef, ListDef(6, "B"), ScalarDef, IncludeDef(6, "B", <<"C">>),
           IncludeDef(6, "B", <<"A">>), IncludeStrDef(6, "B", "C")}
GraphC == {Undef, ListDef(6, "C"), IncludeDef(6, "C", <<"A">>)}
GraphDefs == {[n \in Names |-> IF n = "A" THEN a ELSE IF n = "B" THEN b ELSE c] :
                 a \in GraphA, b \in GraphB, c \in GraphC}

GraphFamily ==
    {Fs(BaseOnly, [l \in Locs |-> IF l = 6 THEN g ELSE NoDefs], NoConfigFile) :
        g \in GraphDefs}

\* no base.yaml: the loader falls back to the single file (which may be
\* missing, or not configured at all)
LegacyCustom ==
    [n \in Names |-> IF n = "A" THEN ListDef(0, "A")
                     ELSE IF n = "B" THEN IncludeDef(0, "B", <<"A">>)
                     ELSE IncludeDef(0, "C", <<"C">>)]

ConfigFiles ==
    {NoConfigFile}
    \cup {[exists |-> TRUE, has_base |-> FALSE, base_rules |-> <<>>,
           has_exchanges |-> FALSE, exchanges |-> {},
           has_custom |-> FALSE, custom_rules |-> NoDefs]}
    \cup {[exists |-> TRUE, has_base |-> TRUE,
           base_rules |-> <<Rule("base", 0, "-", 1)>>,
           has_exchanges |-> he, exchanges |-> IF he THEN {"XHKG"} ELSE {},
           has_custom |-> hc, custom_rules |-> IF hc THEN LegacyCustom ELSE NoDefs] :
             he \in BOOLEAN, hc \in BOOLEAN}

LegacyFamily ==
    {Fs([NoLayers EXCEPT !["prodBase"] = pb], NoCustom, cfg) :
        pb \in {"absent", "rules"}, cfg \in ConfigFiles}

FsFamily == LayerFamily \cup PriorityFamily \cup GraphFamily \cup LegacyFamily

(***************************************************************************)
(* Calls on one RuleLoader                                                 *)
(***************************************************************************)
NoResult == Err("no_result")

Call(op, exchange, custom_rules, names, product_type, rule_name, res, def) ==
    [op |-> op, exchange |-> exchange, custom_rules |-> custom_rules,
     names |-> names, product_type |-> product_type, rule_name |-> rule_name,
     res |-> res, def |-> def]

NoCall == Call("none", None, None, <<>>, None, None, NoResult, Undef)

Key(c) == <<c.op, c.exchange, c.custom_rules, c.names, c.product_type, c.rule_name>>

Record(c) == call' = c

IdleRules ==
    /\ fs = Fs(BaseOnly, NoCustom, NoConfigFile)
    /\ use_modular = TRUE
    /\ config = UnloadedConfig
    /\ call = NoCall

\* The other components before anything was handed to them.
NotExpanded == [called |-> FALSE, raised |-> FALSE, rules |-> <<>>]
IdleExpand == rules_in = <<>> /\ expanded = NotExpanded

NoEngineResults == [has_results |-> FALSE, success |-> "missing", results |-> <<>>]
NoReport ==
    [made |-> FALSE, exchange |-> None, success |-> FALSE,
     total_expectations |-> 0, successful_expectations |-> 0,
     failed_expectations |-> 0, expectation_results |-> <<>>,
     summary |-> [success |-> FALSE, total |-> 0, successful |-> 0, failed |-> 0],
     rules_applied |-> "absent"]

IdleFormat == vr = NoEngineResults /\ report = NoReport

NoValidator == [save_to_database |-> FALSE, service |-> "none", combinations |-> 0]
\* Rows a reader sees in the three tables, by RunId; failed: the RunIds whose
\* save_complete_validation raised.
EmptyDb == [runs |-> {}, expectations |-> {}, rules |-> {}, failed |-> {}, next_id |-> 1]

\* ValidationSummary(region, total)
NewSummary(total) ==
    [total |-> total, successful |-> 0, failed |-> 0, results |-> <<>>, error |-> None]

NoSweep == [phase |-> "idle", next |-> 0, inputs |-> <<>>, health |-> "none"]
IdleBatch ==
    /\ bv = NoValidator /\ db = EmptyDb /\ summary = NewSummary(0) /\ sweep = NoSweep

\* requests: the answers received so far, one per request issued
NoOutcome == [kind |-> "none", from |-> 0, error |-> None]
NoHttp == [script |-> <<>>, requests |-> <<>>, health |-> "unknown", result |-> NoOutcome]
IdleClient == http = NoHttp
\* data_source / data_asset / batch_definition hold the uid of the attempt
\* that assigned them, 0 while the attribute does not exist; ran_on lists,
\* per attempt, the context (self.context) the attempt was made on.
NoSetup ==
    [plan |-> <<>>, attempts |-> 0, context |-> 0, data_source |-> 0,
     data_asset |-> 0, batch_definition |-> 0, outcome |-> "none",
     ran_on |-> <<>>]
IdleSetup == setup = NoSetup
\* A thread of the server inside or outside CSVDataLoader.load.
IdleThread == [pc |-> "idle", now |-> 0, df |-> 0, ret |-> 0, loads |-> 0, warm |-> FALSE]
Threads == {"t1", "t2"}
\* CSVDataLoader(): empty cache map, free lock.  heap[i] is the content of
\* DataFrame object i; cached is the object in the cache entry, 0 for none.
\* file: what is on disk under the file name; evicted_upto: the objects that
\* existed when invalidate returned (0 before it was called).
NoCsv ==
    [cached |-> 0, loaded_at |-> 0, lock |-> "free", clock |-> 0, heap |-> <<>>,
     disk_reads |-> 0, invalidations |-> 0, threads |-> [t \in Threads |-> IdleThread],
     file |-> "rows", evicted_upto |-> 0]
IdleCsv == csv = NoCsv
\* Threads calling add_result on one ValidationSummary, and its _lock.
Workers == {"w1", "w2", "w3"}
IdleWorker == [pc |-> "idle", success |-> FALSE, seen |-> 0, adds |-> 0]
NoWorkers == [lock |-> "free", threads |-> [w \in Workers |-> IdleWorker]]
IdleWorkers == workers = NoWorkers
\* plan: per requested region, what validate_region would hand back;
\* status: exit status of the process, -1 while it runs.
NoCli ==
    [phase |-> "idle", plan |-> <<>>, workers |-> 0, next |-> 0,
     total_failed |-> 0, total_successful |-> 0, constructed |-> FALSE,
     interrupted |-> FALSE, closed |-> FALSE, status |-> -1]
IdleCli == cli = NoCli
\* loader / service: connections checked out of the engine pool of the
\* DatabaseDataLoader / of the DatabaseService; garbage: connections of the
\* service pool still checked out that nothing refers to any more; inflight:
\* the call that is running; last: the call that ended last, with the
\* checked-out count of its pool before and after.
NoDbCall == [op |-> "none", via |-> "none", before |-> 0, after |-> 0, outcome |-> "none"]
NoPool ==
    [loader |-> 0, service |-> 0, garbage |-> 0, inflight |-> NoDbCall,
     last |-> NoDbCall, exhausted |-> FALSE]
IdlePool == pool = NoPool
\* local: the thread-local ValidationService of a thread and product type
\* (0: none yet); fresh: the last object identity / uuid handed out;
\* contexts: every engine context created so far; requests: every
\* validate_exchange request so far; active: the request a thread is serving.
ProductTypes == {"stock"}
NoSvc ==
    [local |-> [k \in Threads \X ProductTypes |-> 0], fresh |-> 0,
     contexts |-> <<>>, requests |-> <<>>, active |-> [t \in Threads |-> 0]]
IdleSvc == svc = NoSvc
\* Module state of instrument_controller: factory is 0 while _loader_factory
\* is None, cache[p] is 0 while p is not a key of _services_cache; services
\* lists the product type of every InstrumentService constructed so far.
InstProductTypes == {"stock", "future"}
IdleCaller == [pc |-> "idle", product_type |-> None, made |-> 0, ret |-> 0, gets |-> 0]
NoInst ==
    [factory |-> 0, factories |-> 0, cache |-> [p \in InstProductTypes |-> 0],
     services |-> <<>>, threads |-> [t \in Threads |-> IdleCaller]]
IdleInst == inst = NoInst
IdleLater ==
    /\ IdleClient /\ IdleSetup /\ IdleCsv /\ IdleWorkers
    /\ IdleCli /\ IdlePool /\ IdleSvc /\ IdleInst

\* RuleLoader.__init__
InitRules ==
    /\ fs \in FsFamily
    /\ use_modular = _detect_modular_structure(fs)
    /\ config = UnloadedConfig
    /\ call = NoCall
    /\ IdleExpand /\ IdleFormat /\ IdleBatch /\ IdleLater

LoadCombinedRulesCall(exchange, custom_rules, custom_rule_names, product_type) ==
    /\ Len(config.base_rules) <= MaxCachedRules
    /\ LET r == load_combined_rules(config, exchange, custom_rules,
                                    custom_rule_names, product_type)
       IN  /\ Record(Call("load_combined_rules", exchange, custom_rules,
                          custom_rule_names, product_type, None, r.res, Undef))
           /\ config' = r.cfg
    /\ UNCHANGED <<fs, use_modular, expandVars, formatVars, batchVars, laterVars>>

LoadBaseRulesCall ==
    /\ LET r == load_base_rules(config)
       IN  /\ Record(Call("load_base_rules", None, None, <<>>, None, None, r.res, Undef))
           /\ config' = r.cfg
    /\ UNCHANGED <<fs, use_modular, expandVars, formatVars, batchVars, laterVars>>

LoadCustomRulesFromYamlCall(custom_rule_names, product_type, exchange) ==
    /\ Record(Call("load_custom_rules_from_yaml", exchange, None, custom_rule_names,
                   product_type, None,
                   load_custom_rules_from_yaml(config, custom_rule_names,
                                               product_type, exchange),
                   Undef))
    /\ config' = IF use_modular \/ custom_rule_names = <<>> THEN config
                 ELSE _load_config(config)
    /\ UNCHANGED <<fs, use_modular, expandVars, formatVars, batchVars, laterVars>>

LoadCustomRuleFileCall(rule_name, product_type, exchange) ==
    /\ LET d == _load_custom_rule_file(rule_name, product_type, exchange)
       IN  Record(Call("_load_custom_rule_file", exchange, None, <<>>, product_type,
                       rule_name, IF Defined(d) THEN Ok(d.rules) ELSE Err("none"), d))
    /\ UNCHANGED <<fs, use_modular, config, expandVars, formatVars, batchVars, laterVars>>

reload_rules ==
    /\ config.loaded
    /\ config' = UnloadedConfig
    /\ Record(Call("reload_rules", None, None, <<>>, None, None, NoResult, Undef))
    /\ UNCHANGED <<fs, use_modular, expandVars, formatVars, batchVars, laterVars>>

NextRules ==
    \/ \E ex \in Exchanges, cr \in InlineChoices, names \in CombinedNameLists,
          pt \in Products : LoadCombinedRulesCall(ex, cr, names, pt)
    \/ LoadBaseRulesCall
    \/ \E names \in NameLists, pt \in Products, ex \in Exchanges :
          LoadCustomRulesFromYamlCall(names, pt, ex)
    \/ \E n \in Names, pt \in Products, ex \in Exchanges :
          LoadCustomRuleFileCall(n, pt, ex)
    \/ reload_rules

SpecRules == InitRules /\ [][NextRules]_vars

(***************************************************************************)
(* Properties of the rule loader                                           *)
(***************************************************************************)
Min(S) == CHOOSE x \in S : \A y \in S : x <= y

\* What a layer file contributes when read as a rule list.
Content(kind, layer) == IF kind = "rules" THEN LayerRules(layer) ELSE <<>>

\* The lookup locations whose path exists for a (product, exchange) scope.
Applicable(loc, product_type, exchange) ==
    /\ loc \in {1, 2} => (product_type # None /\ exchange # None)
    /\ loc \in {3, 4} => product_type # None

Defining(rule_name, product_type, exchange) ==
    {l \in Locs : /\ Applicable(l, product_type, exchange)
                  /\ Defined(fs.custom[l][rule_name])}

\* The definition a name has for a scope, read off the files.
EffectiveDef(rule_name, product_type, exchange) ==
    IF fs.base # "absent"
    THEN IF Defining(rule_name, product_type, exchange) = {} THEN Undef
         ELSE fs.custom[Min(Defining(rule_name, product_type, exchange))][rule_name]
    ELSE IF fs.cfg.exists /\ fs.cfg.has_custom THEN fs.cfg.custom_rules[rule_name]
    ELSE Undef

Includes(rule_name, product_type, exchange) ==
    LET d == EffectiveDef(rule_name, product_type, exchange)
    IN  IF d.kind \in {"include", "include_str"} THEN Range(d.include) ELSE {}

RECURSIVE ReachableFrom(_, _, _)
\* names reachable from the names in S through zero or more includes
ReachableFrom(S, product_type, exchange) ==
    LET next == S \cup UNION {Includes(n, product_type, exchange) \cap Names : n \in S}
    IN  IF next = S THEN S ELSE ReachableFrom(next, product_type, exchange)

OnCycle(n, product_type, exchange) ==
    n \in ReachableFrom(Includes(n, product_type, exchange) \cap Names,
                        product_type, exchange)

CycleReachable(names, product_type, exchange) ==
    \E m \in ReachableFrom(Range(names), product_type, exchange) :
        OnCycle(m, product_type, exchange)

AllReachableWellFormed(names, product_type, exchange) ==
    \A m \in ReachableFrom(Range(names), product_type, exchange) :
        /\ EffectiveDef(m, product_type, exchange).kind \in {"list", "include", "include_str"}
        /\ Includes(m, product_type, exchange) \subseteq Names

\* C1: every list load_combined_rules returns is the concatenation, in this
\* order, of the global base rules, <product>/base.yaml (product given),
\* exchanges/<ex>.yaml (exchange given), the product-exchange file (both
\* given), the named sets resolved in request order, and the inline rules.
C1_OrderedConcatenation ==
    (call.op = "load_combined_rules" /\ call.res.ok) =>
        LET pt == call.product_type
            ex == call.exchange
            base == IF fs.base # "absent" THEN Content(fs.base, "base")
                    ELSE fs.cfg.base_rules
            product == IF pt # None THEN Content(fs.prodBase, "product") ELSE <<>>
            rootEx == IF ex = None THEN <<>>
                      ELSE IF fs.base # "absent" THEN Content(fs.rootEx, "exchange")
                      ELSE IF ex \in fs.cfg.exchanges THEN LegacyExchangeRules(ex)
                      ELSE <<>>
            prodEx == IF pt = None \/ ex = None THEN <<>>
                      ELSE IF fs.prodEx # "absent"
                           THEN Content(fs.prodEx, "product_exchange")
                           ELSE Content(fs.oldProdEx, "old_product_exchange")
            named == load_custom_rules_from_yaml(config, call.names, pt, ex).rules
            inline == IF call.custom_rules = None THEN <<>> ELSE InlineRules
        IN  call.res.rules = base \o product \o rootEx \o prodEx \o named \o inline

\* C2: _load_custom_rule_file returns the definition of the first location, in
\* the fixed order 1..8, that defines the name for the scope of the request,
\* and None when no location does.
C2_FirstHitWins ==
    call.op = "_load_custom_rule_file" =>
        LET defining == Defining(call.rule_name, call.product_type, call.exchange)
        IN  IF defining = {} THEN call.def = Undef
            ELSE call.def = fs.custom[Min(defining)][call.rule_name]

\* C2 witness: a name defined in a product-level file and in lower-priority
\* files, with no exchange-level definition, was looked up and the
\* product-level definition came back.
C2_Witness ==
    /\ call.op = "_load_custom_rule_file"
    /\ call.product_type # None /\ call.exchange # None
    /\ {4, 5, 8} \subseteq Defining(call.rule_name, call.product_type, call.exchange)
    /\ Min(Defining(call.rule_name, call.product_type, call.exchange)) = 4
    /\ call.def = ListDef(4, call.rule_name)

\* C3 (as stated): whenever a cycle is reachable from the requested name the
\* resolution of that name raises the circular-include error.
C3_CycleRaisesCircular ==
    (/\ call.op = "load_custom_rules_from_yaml"
     /\ Len(call.names) = 1
     /\ CycleReachable(call.names, call.product_type, call.exchange))
    => (~call.res.ok /\ call.res.err = "circular")

\* C3 (amended): whenever a cycle is reachable from the requested name the
\* resolution of that name terminates with an error and returns no rule list;
\* the error is the circular-include error when every set reachable from the
\* requested name is defined and well formed.
C3_CycleNeverResolves ==
    (/\ call.op = "load_custom_rules_from_yaml"
     /\ Len(call.names) = 1
     /\ CycleReachable(call.names, call.product_type, call.exchange))
    => /\ ~call.res.ok
       /\ AllReachableWellFormed(call.names, call.product_type, call.exchange)
            => call.res.err = "circular"

\* C3 witness: a request whose include graph has a cycle through other sets
\* than the requested one, all sets well formed, ended with the
\* circular-include error.
C3_Witness ==
    /\ call.op = "load_custom_rules_from_yaml"
    /\ call.names = <<"B">>
    /\ CycleReachable(call.names, call.product_type, call.exchange)
    /\ ~OnCycle("B", call.product_type, call.exchange)
    /\ AllReachableWellFormed(call.names, call.product_type, call.exchange)
    /\ call.res = Err("circular")

RECURSIVE ResolvedInOrder(_, _, _)
\* resolve(n1) ++ ... ++ resolve(nk), each name resolved on its own
ResolvedInOrder(names, product_type, exchange) ==
    IF names = <<>> THEN <<>>
    ELSE load_custom_rules_from_yaml(config, <<Head(names)>>, product_type, exchange).rules
         \o ResolvedInOrder(Tail(names), product_type, exchange)

\* C4: the list resolved for an include document is the lists of its includes,
\* each resolved recursively, in declaration order, followed by the rules
\* written in the document itself.
C4_DepthFirstLeftToRight ==
    (/\ call.op = "load_custom_rules_from_yaml"
     /\ Len(call.names) = 1
     /\ call.res.ok)
    => LET d == EffectiveDef(call.names[1], call.product_type, call.exchange)
       IN  d.kind \in {"include", "include_str"} =>
             call.res.rules =
                 ResolvedInOrder(d.include, call.product_type, call.exchange) \o d.rules

\* C4 witness: a document including two different sets, the first of which
\* includes the second, was resolved to a list.
C4_Witness ==
    /\ call.op = "load_custom_rules_from_yaml"
    /\ call.names = <<"A">>
    /\ call.res.ok
    /\ EffectiveDef("A", call.product_type, call.exchange).include = <<"B", "C">>
    /\ EffectiveDef("B", call.product_type, call.exchange).include = <<"C">>
    /\ Len(call.res.rules) = 4

\* C5: a load_combined_rules call that follows a call with the same arguments
\* returns the same outcome as that call.
C5_IdempotentLoad ==
    [][ (/\ call.op = "load_combined_rules"
         /\ call'.op = "load_combined_rules"
         /\ Key(call') = Key(call))
        => call'.res = call.res ]_vars

\* Some name reachable from the requested names has no definition in the scope.
MissingReachable(names, product_type, exchange) ==
    \E m \in ReachableFrom(Range(names), product_type, exchange) :
        EffectiveDef(m, product_type, exchange).kind = "undef"

\* The rule-set names that have a definition in the scope.
AvailableNames(product_type, exchange) ==
    {n \in Names : EffectiveDef(n, product_type, exchange).kind # "undef"}

ExceptionClass(err) ==
    IF err = "config_not_found" THEN "FileNotFoundError" ELSE "ValueError"

\* ValidationService.validate_exchange around processor.process: ValueError
\* and FileNotFoundError are raised again under their own class, with a longer
\* message; any other exception becomes a plain Exception.
validate_exchange_raises(class) ==
    IF class \in {"FileNotFoundError", "ValueError", "KeyError", "EmptyDataError",
                  "ParserError"}
    THEN IF class = "FileNotFoundError" THEN class ELSE "ValueError"
    ELSE "Exception"

\* The status _handle_validation_error answers an exception with.
_handle_validation_error(class) ==
    IF class = "ValueError" THEN 404
    ELSE IF class = "FileNotFoundError" THEN 404
    ELSE 500

\* The status of a validation request whose rule load ended with error err.
ResponseStatus(err) ==
    _handle_validation_error(validate_exchange_raises(ExceptionClass(err)))

\* C23: a validation request whose rule load ends with the circular-include
\* error is answered with status 500, one whose rule load ends with the
\* rule-not-found error with status 404.
C23_CycleIs500MissingIs404 ==
    (/\ call.op = "load_combined_rules"
     /\ call.product_type # None /\ call.exchange # None
     /\ ~call.res.ok)
    => /\ call.res.err = "circular" => ResponseStatus(call.res.err) = 500
       /\ call.res.err = "not_found" => ResponseStatus(call.res.err) = 404

\* The layer files a load_combined_rules call for the scope reads that are
\* unparseable or whose top level is not a list.
MalformedLayers(product_type, exchange) ==
    {l \in LayerFiles :
        /\ fs[l] \in {"notlist", "badyaml"}
        /\ l = "prodBase" => product_type # None
        /\ l = "rootEx" => exchange # None
        /\ l = "prodEx" => (product_type # None /\ exchange # None)
        /\ l = "oldProdEx" => (/\ product_type # None /\ exchange # None
                               /\ fs.prodEx = "absent")}

\* C24: a load_combined_rules call on a modular rules directory in which a
\* layer file of the scope is unparseable or not a list fails with the
\* invalid-rule error; it returns no merged list.
C24_MalformedLayerFails ==
    (/\ call.op = "load_combined_rules"
     /\ use_modular /\ fs.base # "absent"
     /\ MalformedLayers(call.product_type, call.exchange) # {})
    => /\ ~call.res.ok
       /\ call.res.err \in {"invalid_rule_file", "yaml_error"}

\* C25: on a rules directory whose layer files are each absent or a rule list,
\* with no single file configured, nothing is raised: load_base_rules without
\* base.yaml returns the empty list, and load_combined_rules without named
\* or inline rules returns exactly the rules of the layers that are present.
C25_MissingFilesAreNotErrors ==
    (/\ ~fs.cfg.exists
     /\ use_modular = (fs.base # "absent")
     /\ \A l \in LayerFiles : fs[l] \in {"absent", "rules"})
    => /\ (call.op = "load_base_rules" /\ fs.base = "absent")
            => (call.res.ok /\ call.res.rules = <<>>)
       /\ (call.op = "load_combined_rules" /\ call.names = <<>>
           /\ call.custom_rules = None)
            => /\ call.res.ok
               /\ call.res.rules =
                     Content(fs.base, "base")
                     \o (IF call.product_type # None
                         THEN Content(fs.prodBase, "product") ELSE <<>>)
                     \o (IF call.exchange # None
                         THEN Content(fs.rootEx, "exchange") ELSE <<>>)
                     \o (IF call.product_type = None \/ call.exchange = None
                         THEN <<>>
                         ELSE IF fs.prodEx # "absent"
                         THEN Content(fs.prodEx, "product_exchange")
                         ELSE Content(fs.oldProdEx, "old_product_exchange"))

RECURSIVE Paths(_, _, _, _)
RECURSIVE PathsVia(_, _, _, _)
\* Number of include paths from one name to another (acyclic graphs only).
Paths(from, to, product_type, exchange) ==
    IF from = to THEN 1
    ELSE PathsVia(EffectiveDef(from, product_type, exchange).include, to,
                  product_type, exchange)

PathsVia(includes, to, product_type, exchange) ==
    IF includes = <<>> THEN 0
    ELSE Paths(Head(includes), to, product_type, exchange)
         + PathsVia(Tail(includes), to, product_type, exchange)

\* How many times the rules written in the document of a name occur in a list.
Contributions(rules, name) ==
    Cardinality({i \in 1..Len(rules) : rules[i].name = name})

\* C27: the resolution of a requested name ends with the circular-include
\* error only when a cycle is reachable from that name; when none is and every
\* reachable set is well formed it succeeds, and the rules of every set occur
\* in the result once per include path from the requested name to that set.
C27_CyclePerPath ==
    (/\ call.op = "load_custom_rules_from_yaml"
     /\ Len(call.names) = 1)
    => /\ call.res.err = "circular"
            => CycleReachable(call.names, call.product_type, call.exchange)
       /\ (/\ ~CycleReachable(call.names, call.product_type, call.exchange)
           /\ AllReachableWellFormed(call.names, call.product_type, call.exchange))
            => /\ call.res.ok
               /\ \A d \in ReachableFrom(Range(call.names), call.product_type,
                                          call.exchange) :
                     Contributions(call.res.rules, d)
                         = Paths(call.names[1], d, call.product_type, call.exchange)

\* C27 witness: A includes C and B, B includes C, C is a rule list; the request
\* for A succeeded with the rules of C in the result twice.
C27_Witness ==
    /\ call.op = "load_custom_rules_from_yaml"
    /\ call.names = <<"A">>
    /\ EffectiveDef("A", call.product_type, call.exchange).include = <<"C", "B">>
    /\ EffectiveDef("B", call.product_type, call.exchange).include = <<"C">>
    /\ EffectiveDef("C", call.product_type, call.exchange).kind = "list"
    /\ call.res.ok
    /\ Contributions(call.res.rules, "C") = 2

(***************************************************************************)
(* InstrumentValidator._expand_rules_with_multiple_columns                 *)
(***************************************************************************)
MaxColumnLen == 5   \* longest `column` string that is varied
MaxRules == 3       \* longest rule list handed to the expansion

\* A string is a sequence of characters; these are the characters of the
\* column strings of the model.
Chars == {"a", "b", "c", ",", " "}
Columns == SeqsUpTo(Chars, MaxColumnLen)
Types == {"not_null", "unique"}

\* A rule dict with a `column` key; `column: ` with nothing after it is None.
ColumnRule(column, type) ==
    [isdict |-> TRUE, has_column |-> TRUE, is_none |-> FALSE,
     column |-> column, type |-> type]
NullColumnRule ==
    [isdict |-> TRUE, has_column |-> TRUE, is_none |-> TRUE,
     column |-> <<>>, type |-> "not_null"]
\* A rule dict without a `column` key, and a list entry that is not a dict.
TableRule ==
    [isdict |-> TRUE, has_column |-> FALSE, is_none |-> FALSE,
     column |-> <<>>, type |-> "row_count"]
NotADict ==
    [isdict |-> FALSE, has_column |-> FALSE, is_none |-> FALSE,
     column |-> <<>>, type |-> "-"]

\* `',' in column`
HasComma(column) == \E i \in 1..Len(column) : column[i] = ","

RECURSIVE Split(_)
\* column.split(','): the pieces between commas, empty pieces included
Split(column) ==
    IF ~HasComma(column) THEN <<column>>
    ELSE LET i == CHOOSE k \in 1..Len(column) :
                      column[k] = "," /\ \A j \in 1..(k - 1) : column[j] # ","
         IN  <<SubSeq(column, 1, i - 1)>> \o Split(SubSeq(column, i + 1, Len(column)))

RECURSIVE LStrip(_)
LStrip(s) == IF s # <<>> /\ Head(s) = " " THEN LStrip(Tail(s)) ELSE s
RECURSIVE RStrip(_)
RStrip(s) == IF s # <<>> /\ s[Len(s)] = " " THEN RStrip(SubSeq(s, 1, Len(s) - 1)) ELSE s

\* Variant: the pieces are used as split, blanks around them kept.
KeepBlanks(col) == col

\* col.strip()
Strip(col) == LStrip(RStrip(col))

RECURSIVE RulePerColumn(_, _)
\* the inner loop: one copy of the rule per non-empty stripped piece
RulePerColumn(rule, columns) ==
    IF columns = <<>> THEN <<>>
    ELSE (IF Strip(Head(columns)) # <<>>
          THEN <<[rule EXCEPT !.column = Strip(Head(columns))]>>
          ELSE <<>>)
         \o RulePerColumn(rule, Tail(columns))

\* What one rule contributes to expanded_rules.
ExpandRule(rule) ==
    IF ~rule.isdict \/ ~rule.has_column THEN <<rule>>
    ELSE IF HasComma(rule.column) THEN RulePerColumn(rule, Split(rule.column))
    ELSE <<rule>>

\* `',' in column` raises TypeError when the value of the key is None.
Raises(rule) == rule.isdict /\ rule.has_column /\ rule.is_none

RECURSIVE ExpandAll(_)
ExpandAll(rules) ==
    IF rules = <<>> THEN <<>> ELSE ExpandRule(Head(rules)) \o ExpandAll(Tail(rules))

\* raised: the call ended in TypeError at the first rule whose column is None
_expand_rules_with_multiple_columns(rules) ==
    IF \E i \in 1..Len(rules) : Raises(rules[i])
    THEN [called |-> TRUE, raised |-> TRUE, rules |-> <<>>]
    ELSE [called |-> TRUE, raised |-> FALSE, rules |-> ExpandAll(rules)]

\* Rule lists the expansion is run on: every single-rule list over the column
\* strings, and the lists of up to MaxRules rules over a few columns.
ListRules ==
    {ColumnRule(<<"a", ",", "b">>, "not_null"), ColumnRule(<<"c">>, "unique"),
     ColumnRule(<<" ", "a", ",", ",">>, "unique"), TableRule, NotADict}
RuleLists ==
    {<<ColumnRule(c, t)>> : c \in Columns, t \in Types}
    \cup {<<NullColumnRule>>, <<ColumnRule(<<"a">>, "unique"), NullColumnRule>>}
    \cup SeqsUpTo(ListRules, MaxRules)

InitExpand ==
    /\ rules_in \in RuleLists
    /\ expanded = NotExpanded
    /\ IdleRules /\ IdleFormat /\ IdleBatch /\ IdleLater

ExpandRulesCall ==
    /\ ~expanded.called
    /\ expanded' = _expand_rules_with_multiple_columns(rules_in)
    /\ UNCHANGED <<rules_in, ruleVars, formatVars, batchVars, laterVars>>

NextExpand == ExpandRulesCall

SpecExpand == InitExpand /\ [][NextExpand]_vars

(***************************************************************************)
(* Properties of the column expansion                                      *)
(***************************************************************************)
Max(S) == CHOOSE x \in S : \A y \in S : x >= y

\* Positions that delimit the listed names: before the string, each comma,
\* after the string.
Delimiters(column) ==
    {0, Len(column) + 1} \cup {i \in 1..Len(column) : column[i] = ","}

\* Neighbouring delimiters with at least one non-blank character between them.
ListedNames(column) ==
    {p \in Delimiters(column) \X Delimiters(column) :
        /\ p[1] < p[2]
        /\ \A d \in Delimiters(column) : ~(p[1] < d /\ d < p[2])
        /\ \E i \in (p[1] + 1)..(p[2] - 1) : column[i] # " "}

\* The name between two delimiters, blanks around it removed.
NameAt(column, p) ==
    LET inked == {i \in (p[1] + 1)..(p[2] - 1) : column[i] # " "}
    IN  SubSeq(column, Min(inked), Max(inked))

IsColumnList(rule) == rule.isdict /\ rule.has_column /\ HasComma(rule.column)

\* Number of rules one input rule stands for.
Yield(rule) ==
    IF IsColumnList(rule) THEN Cardinality(ListedNames(rule.column)) ELSE 1

RECURSIVE YieldBefore(_, _)
\* Number of emitted rules that come from the input rules before position i.
YieldBefore(rules, i) ==
    IF i <= 1 THEN 0 ELSE YieldBefore(rules, i - 1) + Yield(rules[i - 1])

\* C6: the expansion emits, for each rule in input order, the rule itself when
\* it has no column or a single column, and otherwise one copy per non-empty
\* trimmed listed name, in listed order, equal to the rule in every field but
\* column; nothing else is emitted.
C6_ColumnExpansion ==
    (expanded.called /\ ~expanded.raised) =>
        /\ Len(expanded.rules) = YieldBefore(rules_in, Len(rules_in) + 1)
        /\ \A i \in 1..Len(rules_in) :
             LET rule == rules_in[i]
                 at == YieldBefore(rules_in, i)
             IN  IF ~IsColumnList(rule) THEN expanded.rules[at + 1] = rule
                 ELSE \A p \in ListedNames(rule.column) :
                        LET k == Cardinality({q \in ListedNames(rule.column) :
                                                 q[1] <= p[1]})
                        IN  expanded.rules[at + k] =
                              [rule EXCEPT !.column = NameAt(rule.column, p)]

\* C6 witness: the rule with column "a,b,c" was expanded into exactly three
\* rules, for a, b and c in this order.
C6_Witness ==
    /\ rules_in = <<ColumnRule(<<"a", ",", "b", ",", "c">>, "not_null")>>
    /\ expanded.called /\ ~expanded.raised
    /\ expanded.rules = <<ColumnRule(<<"a">>, "not_null"),
                          ColumnRule(<<"b">>, "not_null"),
                          ColumnRule(<<"c">>, "not_null")>>

(***************************************************************************)
(* ValidationResultFormatter.format_results                                *)
(***************************************************************************)
MaxResults == 3     \* longest list of expectation results of the engine

\* A `success` attribute as the formatter may find it: a true or false value,
\* None, or no attribute at all.
SuccessValues == {"true", "false", "none", "missing"}

\* Output of the validation engine: has_results is hasattr(.., 'results');
\* each entry of results is the success attribute of one expectation result.
EngineResults ==
    {[has_results |-> FALSE, success |-> s, results |-> <<>>] : s \in SuccessValues}
    \cup {[has_results |-> TRUE, success |-> s, results |-> r] :
            s \in SuccessValues, r \in SeqsUpTo(SuccessValues, MaxResults)}

RulesApplied == {"none", "empty", "listed"}

to_native_bool(value) == value = "true"

\* The `success` entry of one formatted item.
format_result_item(result_item) ==
    IF result_item # "missing" THEN to_native_bool(result_item) ELSE FALSE

RECURSIVE CountSuccessful(_)
\* sum(1 for r in results_list if hasattr(r, 'success') and bool(r.success))
CountSuccessful(results_list) ==
    IF results_list = <<>> THEN 0
    ELSE (IF Head(results_list) # "missing" /\ to_native_bool(Head(results_list))
          THEN 1 ELSE 0)
         + CountSuccessful(Tail(results_list))

\* Variant: only results that say success = false count as failed.
CountExplicitFailures(results_list) ==
    Cardinality({i \in 1..Len(results_list) : results_list[i] = "false"})

\* failed_expectations = total_expectations - successful_expectations
CountFailed(results_list) == Len(results_list) - CountSuccessful(results_list)

Report(exchange, success, total, successful, failed, items, rules_applied) ==
    [made |-> TRUE, exchange |-> exchange, success |-> success,
     total_expectations |-> total,
     successful_expectations |-> successful,
     failed_expectations |-> failed,
     expectation_results |-> items,
     summary |-> [success |-> success, total |-> total,
                  successful |-> successful, failed |-> failed],
     rules_applied |-> rules_applied]

format_results(validation_results, exchange, rules_applied) ==
    IF ~validation_results.has_results
    THEN Report(exchange, FALSE, 0, 0, 0, <<>>, "absent")
    ELSE LET results_list == validation_results.results
         IN  Report(exchange,
                    IF validation_results.success # "missing"
                    THEN to_native_bool(validation_results.success) ELSE FALSE,
                    Len(results_list),
                    CountSuccessful(results_list),
                    CountFailed(results_list),
                    [i \in 1..Len(results_list) |-> format_result_item(results_list[i])],
                    IF rules_applied = "listed" THEN "listed" ELSE "absent")

InitFormat ==
    /\ vr \in EngineResults
    /\ report = NoReport
    /\ IdleRules /\ IdleExpand /\ IdleBatch /\ IdleLater

FormatResultsCall(exchange, rules_applied) ==
    /\ ~report.made
    /\ report' = format_results(vr, exchange, rules_applied)
    /\ UNCHANGED <<vr, ruleVars, expandVars, batchVars, laterVars>>

NextFormat ==
    \E exchange \in Exchanges \ {None}, rules_applied \in RulesApplied :
        FormatResultsCall(exchange, rules_applied)

SpecFormat == InitFormat /\ [][NextFormat]_vars

(***************************************************************************)
(* Properties of the report                                                *)
(***************************************************************************)
\* C7: in every report the successful and failed counts add up to the total,
\* the total is the number of expectation results listed in the report (and
\* of results the engine returned, none for the fallback report), and the
\* summary block repeats the three numbers.
C7_ReportTotals ==
    report.made =>
        /\ report.successful_expectations + report.failed_expectations
             = report.total_expectations
        /\ report.total_expectations = Len(report.expectation_results)
        /\ report.total_expectations = Len(vr.results)
        /\ report.summary.total = report.total_expectations
        /\ report.summary.successful = report.successful_expectations
        /\ report.summary.failed = report.failed_expectations

\* C7 witness: a report over three results of which one succeeded, one has no
\* usable success value and one failed.
C7_Witness ==
    /\ report.made
    /\ vr.has_results /\ vr.results = <<"true", "none", "false">>
    /\ report.total_expectations = 3
    /\ report.successful_expectations = 1
    /\ report.failed_expectations = 2

\* C8 (as stated): the overall success flag of a report is true exactly when
\* every expectation result in it is successful, that is when none failed.
C8_SuccessIffAllSuccessful ==
    report.made =>
        /\ report.success <=> (report.failed_expectations = 0)
        /\ report.success <=>
             \A i \in 1..Len(report.expectation_results) : report.expectation_results[i]

(***************************************************************************)
(* ValidationAPIClient: validate_exchange and health_check                 *)
(***************************************************************************)
MaxScript == 4      \* longest sequence of answers the API is made to give

\* What one GET can come back with: a status code, a 200 whose body is not
\* JSON, or a requests exception.
Answers == {"200", "200_not_json", "404", "500", "503", "connection_error", "timeout"}

\* Outcome of validate_exchange for the answer to its request: the parsed
\* body, or Exception(error_msg).  requests.get is called once; neither the
\* session nor the method repeats a request.
validate_exchange(answer, request_no) ==
    CASE answer = "200" -> [kind |-> "response", from |-> request_no, error |-> None]
      [] answer = "200_not_json" ->
           [kind |-> "raise", from |-> request_no, error |-> "Invalid JSON response"]
      [] answer \in {"404", "500", "503"} ->
           [kind |-> "raise", from |-> request_no, error |-> "HTTP status"]
      [] answer = "connection_error" ->
           [kind |-> "raise", from |-> request_no, error |-> "Connection error"]
      [] answer = "timeout" ->
           [kind |-> "raise", from |-> request_no, error |-> "Request timeout"]

\* a health check that never fails
AlwaysHealthy(answer) == TRUE

\* status_code == 200; a RequestException gives False
health_check(answer) == answer \in {"200", "200_not_json"}

InitClient ==
    /\ http \in {[NoHttp EXCEPT !.script = s] : s \in SeqsUpTo(Answers, MaxScript) \ {<<>>}}
    /\ IdleRules /\ IdleExpand /\ IdleFormat /\ IdleBatch
    /\ IdleSetup /\ IdleCsv /\ IdleWorkers /\ IdleCli /\ IdlePool /\ IdleSvc /\ IdleInst

\* The API answers the next request with the next entry of the script.
NextAnswer == http.script[Len(http.requests) + 1]

HealthCheckCall ==
    /\ http.health = "unknown"
    /\ http.result.kind = "none"
    /\ Len(http.requests) < Len(http.script)
    /\ http' = [http EXCEPT
                  !.requests = Append(@, NextAnswer),
                  !.health = IF health_check(NextAnswer) THEN "healthy" ELSE "unhealthy"]
    /\ UNCHANGED <<ruleVars, expandVars, formatVars, batchVars,
                   setup, csv, workers, cli, pool, svc, inst>>

ValidateExchangeCall ==
    /\ http.result.kind = "none"
    /\ Len(http.requests) < Len(http.script)
    /\ http' = [http EXCEPT
                  !.requests = Append(@, NextAnswer),
                  !.result = validate_exchange(NextAnswer, Len(http.requests) + 1)]
    /\ UNCHANGED <<ruleVars, expandVars, formatVars, batchVars,
                   setup, csv, workers, cli, pool, svc, inst>>

NextClient == HealthCheckCall \/ ValidateExchangeCall

SpecClient == InitClient /\ [][NextClient]_vars

\* The answers the API has left for the call and the requests the call made.
Scripted == IF http.health = "unknown" THEN http.script ELSE Tail(http.script)
Issued == Len(http.requests) - (IF http.health = "unknown" THEN 0 ELSE 1)

Retryable(answer) == answer \in {"429", "500", "502", "503", "504", "connection_error", "timeout"}

\* C11 (as stated): a validation call repeats its request while the answer is
\* retryable, three requests at most; answered 503, 503, 200 it has issued
\* three requests and reports the body of the third; answered three
\* retryable failures it has issued three requests and raises.
C11_RetriesTransient ==
    http.result.kind # "none" =>
        /\ Issued <= 3
        /\ (Len(Scripted) >= 3 /\ SubSeq(Scripted, 1, 3) = <<"503", "503", "200">>)
             => (Issued = 3 /\ http.result.kind = "response")
        /\ (Len(Scripted) >= 3 /\ \A i \in 1..3 : Retryable(Scripted[i]))
             => (Issued = 3 /\ http.result.kind = "raise")

(***************************************************************************)
(* BatchValidator.validate_region over ValidationRepository                *)
(***************************************************************************)
MaxCombos == 3      \* most (region, product, exchange) combinations of a region

\* What ValidationAPIClient.validate_exchange can hand back: a response dict
\* (success key true, false or missing; failed counts in results.summary
\* and/or at top level, -1 for a missing key; number of expectation results)
\* or an exception with or without a message.
ApiResponse(success, summary_failed, top_failed, expectations) ==
    [kind |-> "response", success |-> success, summary_failed |-> summary_failed,
     top_failed |-> top_failed, expectations |-> expectations, message |-> ""]
ApiRaises(message) ==
    [kind |-> "raise", success |-> "missing", summary_failed |-> -1,
     top_failed |-> -1, expectations |-> 0, message |-> message]
NoApiResult ==
    [kind |-> "none", success |-> "missing", summary_failed |-> -1,
     top_failed |-> -1, expectations |-> 0, message |-> ""]

ApiOutcomes ==
    {ApiResponse("true", 0, 0, 1), ApiResponse("false", 2, 2, 1),
     ApiResponse("false", -1, 1, 1), ApiResponse("missing", -1, -1, 0),
     ApiRaises("timeout"), ApiRaises("")}

\* Where a save can fail: obtaining the connection or cursor, the header
\* insert, the read-back after the header commit, the expectation-result
\* rows, the rules-applied rows.
Faults == {"none", "connect", "insert", "verify", "expectations", "rules"}

\* get_connection() of the shipped DatabaseService returns a pooled SQLAlchemy
\* Connection ("pooled"); an injected service may return a DBAPI connection
\* ("dbapi").  "none": saving is disabled and there is no repository.
Services == {"dbapi", "pooled"}

Validators ==
    {[save_to_database |-> TRUE, service |-> s, combinations |-> n] :
        s \in Services, n \in 0..MaxCombos}
    \cup {[save_to_database |-> FALSE, service |-> "none", combinations |-> n] :
            n \in 0..MaxCombos}

\* ValidationResult(region, product_type, exchange); run_id 0: no _run_id
NewResult == [success |-> FALSE, error |-> None, api_result |-> NoApiResult, run_id |-> 0]

Saved(database, run_id, raised) ==
    [db |-> IF raised /\ run_id # 0
            THEN [database EXCEPT !.failed = @ \cup {run_id}] ELSE database,
     run_id |-> run_id, raised |-> raised]

\* INSERT ... OUTPUT INSERTED.RunId, then conn.commit() on its own connection
save_validation_run(database) ==
    [database EXCEPT !.runs = @ \cup {database.next_id}, !.next_id = @ + 1]

\* returns without writing when the response lists no expectation results
save_expectation_results(database, run_id, api_result) ==
    IF api_result.expectations = 0 THEN database
    ELSE [database EXCEPT !.expectations = @ \cup {run_id}]

save_rules_applied(database, run_id) ==
    [database EXCEPT !.rules = @ \cup {run_id}]

\* The three saves in sequence, each on a connection of its own with its own
\* commit; an exception rolls back the connection it occurred on and is
\* re-raised.  conn.cursor() does not exist on a pooled SQLAlchemy Connection.
save_complete_validation(service, fault, api_result, database) ==
    LET run_id == database.next_id
        d1 == save_validation_run(database)
        d2 == save_expectation_results(d1, run_id, api_result)
        d3 == save_rules_applied(d2, run_id)
    IN  IF service = "pooled" \/ fault \in {"connect", "insert"}
        THEN Saved(database, 0, TRUE)
        ELSE IF fault = "verify" THEN Saved(d1, run_id, TRUE)
        ELSE IF fault = "expectations" THEN Saved(d1, run_id, TRUE)
        ELSE IF fault = "rules" THEN Saved(d2, run_id, TRUE)
        ELSE Saved(d3, run_id, FALSE)

\* result.success / result.error / result.api_result from the API call alone
FromApi(api) ==
    IF api.kind = "raise"
    THEN [NewResult EXCEPT
            !.error = IF api.message # "" THEN api.message
                      ELSE "Exception: API call failed"]
    ELSE IF api.success = "true"
    THEN [NewResult EXCEPT !.success = TRUE, !.api_result = api]
    ELSE [NewResult EXCEPT
            !.api_result = api,
            !.error = IF api.summary_failed >= 0
                      THEN (IF api.summary_failed > 0
                            THEN "Validation failed: counts of results.summary"
                            ELSE "Validation failed (check API response for details)")
                      ELSE (IF api.top_failed > 0
                            THEN "Validation failed: top-level counts"
                            ELSE "Validation failed (check API response for details)")]

\* Variant: the exception of a failed save reaches the outer handler, which
\* records its message as the error of the result.
SaveErrorPropagates(result) == [result EXCEPT !.error = "database error"]

\* `except Exception as db_error:` of the save: log, print, do not raise
OnSaveError(result) == result

_validate_single(validator, api, fault, database) ==
    LET result == FromApi(api)
        saved == save_complete_validation(validator.service, fault,
                                          result.api_result, database)
    IN  IF api.kind = "raise" \/ ~validator.save_to_database
        THEN [result |-> result, db |-> database]
        ELSE IF saved.raised
        THEN [result |-> OnSaveError(result), db |-> saved.db]
        ELSE [result |-> [result EXCEPT !.run_id = saved.run_id], db |-> saved.db]

\* add_result that drops a validation that did not succeed.
AddUnlessFailed(s, result) ==
    IF result.success
    THEN [s EXCEPT !.results = Append(@, result), !.successful = @ + 1]
    ELSE s

add_result(s, result) ==
    [s EXCEPT !.results = Append(@, result),
              !.successful = IF result.success THEN @ + 1 ELSE @,
              !.failed = IF result.success THEN @ ELSE @ + 1]

InitBatch ==
    /\ bv \in Validators
    /\ db = EmptyDb
    /\ summary = NewSummary(0)
    /\ sweep = NoSweep
    /\ IdleRules /\ IdleExpand /\ IdleFormat /\ IdleLater

\* validate_region up to the loop: health check, combinations of the region.
\* _check_api_health: the region goes on only when health_check says True.
_check_api_health(answer) == health_check(answer)

ValidateRegionStart(answer) ==
    /\ sweep.phase = "idle"
    /\ IF ~_check_api_health(answer)
       THEN /\ summary' = [NewSummary(0) EXCEPT !.error = "API unavailable"]
            /\ sweep' = [sweep EXCEPT !.phase = "done", !.health = answer]
       ELSE IF bv.combinations = 0
       THEN /\ summary' = NewSummary(0)
            /\ sweep' = [sweep EXCEPT !.phase = "done", !.health = answer]
       ELSE /\ summary' = NewSummary(bv.combinations)
            /\ sweep' = [sweep EXCEPT !.phase = "running", !.next = 1,
                                      !.health = answer]
    /\ UNCHANGED <<bv, db, ruleVars, expandVars, formatVars, laterVars>>

\* One pass of the loop: _validate_single for the next combination, then
\* summary.add_result; after the last combination validate_region returns.
ValidateNext(api, fault) ==
    /\ sweep.phase = "running"
    /\ LET v == _validate_single(bv, api, fault, db)
       IN  /\ summary' = add_result(summary, v.result)
           /\ db' = v.db
    /\ sweep' = [sweep EXCEPT !.inputs = Append(@, api),
                              !.next = @ + 1,
                              !.phase = IF sweep.next = bv.combinations
                                        THEN "done" ELSE "running"]
    /\ UNCHANGED <<bv, ruleVars, expandVars, formatVars, laterVars>>

NextBatch ==
    \/ \E answer \in Answers : ValidateRegionStart(answer)
    \/ \E api \in ApiOutcomes, fault \in Faults : ValidateNext(api, fault)

SpecBatch == InitBatch /\ [][NextBatch]_vars

SaveFailed(i) ==
    /\ bv.save_to_database
    /\ sweep.inputs[i].kind = "response"
    /\ summary.results[i].run_id = 0

\* C10: every result whose save raised carries the success, error and
\* api_result that the same API outcome gives with saving disabled, it is in
\* the summary and counted in the class that success puts it in, and the
\* sweep goes on to the next combination until all have a result.
C10_SaveFailureKeepsOutcome ==
    /\ Len(sweep.inputs) = Len(summary.results)
    /\ \A i \in 1..Len(summary.results) :
         SaveFailed(i) =>
           LET plain == _validate_single([bv EXCEPT !.save_to_database = FALSE],
                                         sweep.inputs[i], "none", db).result
               r == summary.results[i]
           IN  /\ r.success = plain.success
               /\ r.error = plain.error
               /\ r.api_result = plain.api_result
               /\ r.success <=> sweep.inputs[i].success = "true"
    /\ summary.successful =
         Cardinality({i \in 1..Len(summary.results) : summary.results[i].success})
    /\ summary.failed =
         Cardinality({i \in 1..Len(summary.results) : ~summary.results[i].success})
    /\ sweep.phase = "running" =>
         /\ sweep.next = Len(summary.results) + 1
         /\ sweep.next <= summary.total
    /\ (sweep.phase = "done" /\ summary.error = None) =>
         Len(summary.results) = summary.total

\* C10 witness: the save of the first combination raised after its header
\* was committed, the passing result is in the summary as successful, and
\* the second combination was validated after it.
C10_Witness ==
    /\ Len(summary.results) = 2
    /\ SaveFailed(1)
    /\ 1 \in db.failed
    /\ summary.results[1].success
    /\ summary.results[1].error = None
    /\ summary.results[1].api_result = sweep.inputs[1]
    /\ summary.successful >= 1
    /\ sweep.phase = "done"

(***************************************************************************)
(* Properties of the region sweep                                          *)
(***************************************************************************)
Healthy == {"200", "200_not_json"}

\* C16: when validate_region returns for a region whose health check passed,
\* the summary holds exactly one result per enumerated combination, in the
\* order of the combinations; a combination whose API call raised or timed
\* out is counted as failed; total = len(results) = successful + failed.
C16_OneResultPerCombination ==
    (sweep.phase = "done" /\ sweep.health \in Healthy) =>
        /\ Len(summary.results) = bv.combinations
        /\ Len(sweep.inputs) = bv.combinations
        /\ summary.total = Len(summary.results)
        /\ summary.total = summary.successful + summary.failed
        /\ summary.failed =
             Cardinality({i \in 1..Len(summary.results) : ~summary.results[i].success})
        /\ \A i \in 1..Len(summary.results) :
               sweep.inputs[i].kind = "raise" => ~summary.results[i].success

\* Three combinations, the second one timed out: total 3, successful 2, failed 1.
C16_Witness ==
    /\ sweep.phase = "done"
    /\ sweep.health = "200"
    /\ summary.total = 3
    /\ summary.successful = 2
    /\ summary.failed = 1
    /\ Len(summary.results) = 3
    /\ sweep.inputs[2] = ApiRaises("timeout")
    /\ ~summary.results[2].success

\* C18: a failed health check marks the region "API unavailable" and is
\* followed by no validation request and no database write; a validation
\* request or a database write is only ever seen after a health check that
\* passed.
C18_HealthGate ==
    /\ (sweep.phase # "idle" /\ sweep.health \notin Healthy) =>
          /\ sweep.phase = "done"
          /\ summary.error = "API unavailable"
          /\ summary.total = 0
          /\ sweep.inputs = <<>>
          /\ summary.results = <<>>
          /\ db = EmptyDb
    /\ (sweep.inputs # <<>> \/ db # EmptyDb) =>
          /\ sweep.health \in Healthy
          /\ summary.error = None

\* The API answers 503 to the health request of a region with three
\* combinations and saving enabled: the region is over with nothing sent.
C18_Witness ==
    /\ sweep.phase = "done"
    /\ sweep.health = "503"
    /\ bv.combinations = 3
    /\ bv.save_to_database
    /\ summary.error = "API unavailable"
    /\ sweep.inputs = <<>>
    /\ db = EmptyDb

(***************************************************************************)
(* InstrumentValidator._setup_data_source                                  *)
(***************************************************************************)
MAX_RETRIES == 3

\* How one attempt goes: the step that raises (0 none, 1 add_pandas,
\* 2 add_dataframe_asset, 3 add_batch_definition_whole_dataframe), the kind
\* of message of the exception, and whether gx.get_context succeeds when the
\* context is recreated.
Attempt(fails_at, error, recreate_ok) ==
    [fails_at |-> fails_at, error |-> error, recreate_ok |-> recreate_ok]
AttemptKinds ==
    {Attempt(0, "none", TRUE)}
    \cup {Attempt(f, e, r) : f \in {1, 3}, e \in {"closed_file", "yaml"}, r \in BOOLEAN}
    \cup {Attempt(f, "other", TRUE) : f \in {1, 3}}

\* One more attempt kind than attempts are allowed.
Plans == [1..(MAX_RETRIES + 1) -> AttemptKinds]

\* Variant: every exception is taken for a transient one.
AlwaysTransient(error) == error # "none"

\* any(tok in msg_lower for tok in _TRANSIENT_MSGS) or ... in _YAML_MSGS
IsTransient(error) == error \in {"closed_file", "yaml"}

\* The three assignments of one attempt, up to the step that raises; uid is
\* the identifier generated for the attempt.
Assigned(s, uid, fails_at) ==
    [s EXCEPT !.data_source = IF fails_at # 1 THEN uid ELSE @,
              !.data_asset = IF fails_at \notin {1, 2} THEN uid ELSE @,
              !.batch_definition = IF fails_at = 0 THEN uid ELSE @]

RECURSIVE SetupAttempts(_, _)
\* for attempt in range(1, MAX_RETRIES + 1): ...; the uid of attempt n is n
SetupAttempts(s, attempt) ==
    IF attempt > MAX_RETRIES THEN [s EXCEPT !.outcome = "raised_after_retries"]
    ELSE LET kind == s.plan[attempt]
             tried == [Assigned(s, attempt, kind.fails_at) EXCEPT
                         !.attempts = attempt, !.ran_on = Append(@, s.context)]
         IN  IF kind.fails_at = 0 THEN [tried EXCEPT !.outcome = "returned"]
             ELSE IF IsTransient(kind.error)
             THEN SetupAttempts([tried EXCEPT !.context =
                                    IF kind.recreate_ok THEN @ + 1 ELSE @],
                                attempt + 1)
             ELSE [tried EXCEPT !.outcome = "raised"]

_setup_data_source(s) == SetupAttempts(s, 1)

InitSetup ==
    /\ setup \in {[NoSetup EXCEPT !.plan = p, !.context = 1] : p \in Plans}
    /\ IdleRules /\ IdleExpand /\ IdleFormat /\ IdleBatch
    /\ IdleClient /\ IdleCsv /\ IdleWorkers /\ IdleCli /\ IdlePool /\ IdleSvc /\ IdleInst

SetupDataSourceCall ==
    /\ setup.outcome = "none"
    /\ setup' = _setup_data_source(setup)
    /\ UNCHANGED <<ruleVars, expandVars, formatVars, batchVars,
                   http, csv, workers, cli, pool, svc, inst>>

NextSetup == SetupDataSourceCall

SpecSetup == InitSetup /\ [][NextSetup]_vars

\* Attempt i of the plan fails with an error that is retried.
TransientAt(i) ==
    setup.plan[i].fails_at # 0 /\ setup.plan[i].error \in {"closed_file", "yaml"}

\* C12: at most three attempts are made; the call returns at the first
\* attempt that succeeds, with the three objects assigned by that attempt,
\* raises after a third transient failure in a row, and raises at the first
\* failure that is not transient; it returns in no other case.
C12_SetupAttempts ==
    setup.outcome # "none" =>
        /\ setup.attempts \in 1..3
        /\ \A i \in 1..(setup.attempts - 1) : TransientAt(i)
        /\ setup.outcome = "returned" <=> setup.plan[setup.attempts].fails_at = 0
        /\ setup.outcome = "returned" =>
             /\ setup.data_source = setup.attempts
             /\ setup.data_asset = setup.attempts
             /\ setup.batch_definition = setup.attempts
        /\ setup.outcome # "returned" =>
             \/ ~TransientAt(setup.attempts)
             \/ setup.attempts = 3

\* C12 witness: two transient failures, the second after data_source and
\* data_asset were assigned, then a third attempt that succeeded.
C12_Witness ==
    /\ setup.outcome = "returned"
    /\ setup.attempts = 3
    /\ setup.plan[1] = Attempt(1, "closed_file", FALSE)
    /\ setup.plan[2] = Attempt(3, "yaml", TRUE)
    /\ setup.data_source = 3 /\ setup.data_asset = 3 /\ setup.batch_definition = 3

\* C21 (as stated): every retry runs on a context created after the failure
\* it follows, never on the context the failed attempt ran on, also when
\* recreating the context failed; the names of a retry are newly generated
\* (the attributes assigned by attempt n carry the uid of attempt n).
C21_RetryOnNewContext ==
    /\ \A i \in 2..Len(setup.ran_on) : setup.ran_on[i] > setup.ran_on[i - 1]
    /\ setup.outcome = "returned" =>
          /\ setup.data_source = setup.attempts
          /\ setup.data_asset = setup.attempts
          /\ setup.batch_definition = setup.attempts

(***************************************************************************)
(* CSVDataLoader: load and invalidate of one file under two threads        *)
(***************************************************************************)
MaxLoads == 3       \* load calls of all threads together
MaxClock == 3       \* ticks of time.monotonic() that are followed
Ttl == 2            \* cache_ttl, in ticks

\* A new DataFrame object with the given content; its id is the next free one.
NewObject(c, content) == [c EXCEPT !.heap = Append(@, content)]
NewId(c) == Len(c.heap) + 1

\* entry is not None and now - loaded_at < self.cache_ttl
Fresh(c, now) == c.cached # 0 /\ now - c.loaded_at < Ttl

\* What the file name can stand for on disk.
\*   missing     : no such file          zero_bytes : an empty file
\*   header_only : a header line and no data row
\*   rows        : a header line and data rows
\*   garbled     : not parseable as CSV
CsvFiles == {"missing", "zero_bytes", "header_only", "rows", "garbled"}

\* pd.read_csv: the DataFrame it returns, or the exception it raises.
read_csv(file) ==
    CASE file = "zero_bytes"  -> [raised |-> "EmptyDataError", content |-> "none"]
      [] file = "garbled"     -> [raised |-> "ParserError", content |-> "none"]
      [] file = "header_only" -> [raised |-> None, content |-> "no_rows"]
      [] file = "rows"        -> [raised |-> None, content |-> "parsed"]

\* _read: exists check, read_csv with its exceptions raised again, and the
\* df.empty check.
_read(file) ==
    IF file = "missing" THEN [raised |-> "FileNotFoundError", content |-> "none"]
    ELSE IF read_csv(file).raised # None THEN read_csv(file)
    ELSE IF read_csv(file).content = "no_rows"
    THEN [raised |-> "EmptyDataError", content |-> "none"]
    ELSE read_csv(file)

notCsvVars == <<ruleVars, expandVars, formatVars, batchVars,
            http, setup, workers, cli, pool, svc, inst>>

InitCsv ==
    /\ \E file \in CsvFiles : csv = [NoCsv EXCEPT !.file = file]
    /\ IdleRules /\ IdleExpand /\ IdleFormat /\ IdleBatch
    /\ IdleClient /\ IdleSetup /\ IdleWorkers /\ IdleCli /\ IdlePool /\ IdleSvc /\ IdleInst

Tick ==
    /\ csv.clock < MaxClock
    /\ csv' = [csv EXCEPT !.clock = @ + 1]
    /\ UNCHANGED notCsvVars

\* load(): file_path, cache_key, now = time.monotonic()
LoadStart(t) ==
    /\ csv.threads[t].pc = "idle"
    /\ csv.threads["t1"].loads + csv.threads["t2"].loads < MaxLoads
    /\ csv' = [csv EXCEPT !.threads[t] =
                 [pc |-> "fast_wait", now |-> csv.clock, df |-> 0, ret |-> 0,
                  loads |-> @.loads + 1, warm |-> Fresh(csv, csv.clock)]]
    /\ UNCHANGED notCsvVars

\* `with self._lock:` of the fast path and of the slow path
LoadAcquire(t) ==
    /\ csv.threads[t].pc \in {"fast_wait", "slow_wait"}
    /\ csv.lock = "free"
    /\ csv' = [csv EXCEPT !.lock = t,
                          !.threads[t].pc = IF @ = "fast_wait" THEN "fast_in" ELSE "slow_in"]
    /\ UNCHANGED notCsvVars

\* Variant: a hit hands out the cached object itself.
ReturnCached(c, t) ==
    [c EXCEPT !.lock = "free", !.threads[t].pc = "done", !.threads[t].ret = c.cached]

\* cache HIT: return df.copy(), leaving the `with` block
ReturnCopy(c, t) ==
    [NewObject(c, c.heap[c.cached]) EXCEPT
        !.lock = "free", !.threads[t].pc = "done", !.threads[t].ret = NewId(c)]

\* The fast path under the lock: lookup, hit or fall through to the slow path.
LoadLookup(t) ==
    /\ csv.threads[t].pc = "fast_in"
    /\ csv' = IF Fresh(csv, csv.threads[t].now)
              THEN ReturnCopy(csv, t)
              ELSE [csv EXCEPT !.lock = "free", !.threads[t].pc = "read"]
    /\ UNCHANGED notCsvVars

\* df = self._read(file_path), outside the lock
LoadRead(t) ==
    /\ csv.threads[t].pc = "read"
    /\ csv' = IF _read(csv.file).raised # None
              THEN [csv EXCEPT !.disk_reads = @ + 1, !.threads[t].pc = "raised"]
              ELSE [NewObject(csv, _read(csv.file).content) EXCEPT
                       !.disk_reads = @ + 1,
                       !.threads[t].df = NewId(csv),
                       !.threads[t].pc = "slow_wait"]
    /\ UNCHANGED notCsvVars

\* The exception of _read leaves load(); the caller is ready to load again.
LoadRaised(t) ==
    /\ csv.threads[t].pc = "raised"
    /\ csv' = [csv EXCEPT !.threads[t].pc = "idle"]
    /\ UNCHANGED notCsvVars

\* self._cache[cache_key] = (df, time.monotonic()) under the lock
LoadPublish(t) ==
    /\ csv.threads[t].pc = "slow_in"
    /\ csv' = [csv EXCEPT !.cached = csv.threads[t].df, !.loaded_at = csv.clock,
                          !.lock = "free", !.threads[t].pc = "copy"]
    /\ UNCHANGED notCsvVars

\* return df.copy() of the slow path
LoadReturn(t) ==
    /\ csv.threads[t].pc = "copy"
    /\ csv' = [NewObject(csv, csv.heap[csv.threads[t].df]) EXCEPT
                  !.threads[t].pc = "done", !.threads[t].ret = NewId(csv)]
    /\ UNCHANGED notCsvVars

\* The caller changes the DataFrame it was given, then is ready to load again.
CallerMutates(t) ==
    /\ csv.threads[t].pc = "done"
    /\ csv' = [csv EXCEPT !.heap[csv.threads[t].ret] = "changed",
                          !.threads[t].pc = "idle"]
    /\ UNCHANGED notCsvVars

\* invalidate(): pop or clear under the lock
Invalidate ==
    /\ csv.lock = "free"
    /\ csv.cached # 0
    /\ csv.invalidations = 0
    /\ csv' = [csv EXCEPT !.cached = 0, !.loaded_at = 0, !.invalidations = @ + 1,
                          !.evicted_upto = Len(csv.heap)]
    /\ UNCHANGED notCsvVars

NextCsv ==
    \/ Tick
    \/ Invalidate
    \/ \E t \in Threads :
         \/ LoadStart(t) \/ LoadAcquire(t) \/ LoadLookup(t) \/ LoadRead(t)
         \/ LoadPublish(t) \/ LoadReturn(t) \/ CallerMutates(t) \/ LoadRaised(t)

SpecCsv == InitCsv /\ [][NextCsv]_vars

\* C13 (as stated): while the entry is neither evicted nor expired the file is
\* read from disk at most once, whatever the interleaving of the loads, and a
\* load that started while a fresh entry was published does not go to disk.
C13_OneParsePerMiss ==
    csv.invalidations = 0 =>
        /\ csv.clock < Ttl => csv.disk_reads <= 1
        /\ \A t \in Threads :
             csv.threads[t].warm => csv.threads[t].pc \notin {"read", "slow_wait", "slow_in", "copy"}

\* C14: the object in the cache still has the content it was parsed with, no
\* caller holds it as a return value, and a thread looking up or storing an
\* entry holds the lock.
C14_DefensiveCopies ==
    /\ csv.cached # 0 => csv.heap[csv.cached] = "parsed"
    /\ \A t \in Threads :
         /\ csv.threads[t].ret # 0 => csv.threads[t].ret # csv.cached
         /\ (csv.threads[t].ret # 0 /\ csv.threads[t].pc = "done")
              => csv.heap[csv.threads[t].ret] = "parsed"
         /\ csv.threads[t].pc \in {"fast_in", "slow_in"} <=> csv.lock = t

\* C14 witness: a thread changed the DataFrame a load gave it and a later
\* load, a cache hit, returned the parsed content again.
C14_Witness ==
    \E t \in Threads :
        /\ csv.threads[t].pc = "done"
        /\ csv.threads[t].loads = 2
        /\ csv.disk_reads = 1
        /\ \E i \in 1..Len(csv.heap) : csv.heap[i] = "changed"
        /\ csv.heap[csv.threads[t].ret] = "parsed"

\* C26: a load of a file that has a header line and no data row raises
\* nothing; it returns a dataset without rows, which is then in the cache.
C26_HeaderOnlyLoads ==
    csv.file = "header_only" =>
        \A t \in Threads :
            /\ csv.threads[t].pc # "raised"
            /\ csv.threads[t].pc = "done"
                 => /\ csv.heap[csv.threads[t].ret] = "no_rows"
                    /\ csv.cached # 0

\* C28: once invalidate has returned, the cache entry is never an object that
\* was read from disk before the invalidation.
C28_InvalidateNotUndone ==
    (csv.invalidations > 0 /\ csv.cached # 0) => csv.cached > csv.evicted_upto

(***************************************************************************)
(* ValidationSummary.add_result called from several threads                *)
(***************************************************************************)
MaxAdds == 1        \* add_result calls per thread

notWorkerVars == <<ruleVars, expandVars, formatVars, bv, db, sweep,
                   http, setup, csv, cli, pool, svc, inst>>

InitWorkers ==
    /\ workers = NoWorkers
    /\ IdleRules /\ IdleExpand /\ IdleFormat /\ IdleBatch
    /\ IdleClient /\ IdleSetup /\ IdleCsv /\ IdleCli /\ IdlePool /\ IdleSvc /\ IdleInst

\* add_result(result) is called; the thread reaches `with self._lock:`
AddResultStart(w, success) ==
    /\ workers.threads[w].pc = "idle"
    /\ workers.threads[w].adds < MaxAdds
    /\ workers' = [workers EXCEPT !.threads[w].pc = "wait",
                                  !.threads[w].success = success]
    /\ UNCHANGED <<summary, notWorkerVars>>

\* Variant: the block is entered without waiting for the lock.
EnterAnyway(lock) == TRUE

\* threading.Lock: acquired only while no thread holds it
CanEnter(lock) == lock = "free"

AddResultAcquire(w) ==
    /\ workers.threads[w].pc = "wait"
    /\ CanEnter(workers.lock)
    /\ workers' = [workers EXCEPT !.lock = w, !.threads[w].pc = "append"]
    /\ UNCHANGED <<summary, notWorkerVars>>

\* self.results.append(result)
AddResultAppend(w) ==
    /\ workers.threads[w].pc = "append"
    /\ summary' = [summary EXCEPT !.results =
                     Append(@, [NewResult EXCEPT !.success = workers.threads[w].success])]
    /\ workers' = [workers EXCEPT !.threads[w].pc = "read"]
    /\ UNCHANGED notWorkerVars

\* `self.successful += 1` / `self.failed += 1`: the counter is read ...
AddResultRead(w) ==
    /\ workers.threads[w].pc = "read"
    /\ workers' = [workers EXCEPT
                     !.threads[w].pc = "write",
                     !.threads[w].seen = IF workers.threads[w].success
                                         THEN summary.successful ELSE summary.failed]
    /\ UNCHANGED <<summary, notWorkerVars>>

\* ... and written back one higher; the `with` block ends and add_result returns.
AddResultWrite(w) ==
    /\ workers.threads[w].pc = "write"
    /\ summary' = IF workers.threads[w].success
                  THEN [summary EXCEPT !.successful = workers.threads[w].seen + 1]
                  ELSE [summary EXCEPT !.failed = workers.threads[w].seen + 1]
    /\ workers' = [workers EXCEPT !.lock = "free",
                                  !.threads[w].pc = "idle",
                                  !.threads[w].adds = @ + 1]
    /\ UNCHANGED notWorkerVars

NextWorkers ==
    \E w \in Workers :
        \/ \E success \in BOOLEAN : AddResultStart(w, success)
        \/ AddResultAcquire(w) \/ AddResultAppend(w)
        \/ AddResultRead(w) \/ AddResultWrite(w)

SpecWorkers == InitWorkers /\ [][NextWorkers]_vars

RECURSIVE SumAdds(_)
\* add_result calls that have returned, over a set of threads
SumAdds(ws) ==
    IF ws = {} THEN 0
    ELSE LET w == CHOOSE x \in ws : TRUE
         IN  workers.threads[w].adds + SumAdds(ws \ {w})

\* C15: once every add_result call has returned, the list holds one entry per
\* call and the two counters count the entries by success, adding up to the
\* number of calls; at any time at most one thread is between the append and
\* the counter update.
C15_AddResultAtomic ==
    /\ Cardinality({w \in Workers : workers.threads[w].pc \in {"append", "read", "write"}}) <= 1
    /\ (\A w \in Workers : workers.threads[w].pc = "idle") =>
         /\ Len(summary.results) = SumAdds(Workers)
         /\ summary.successful =
              Cardinality({i \in 1..Len(summary.results) : summary.results[i].success})
         /\ summary.failed =
              Cardinality({i \in 1..Len(summary.results) : ~summary.results[i].success})
         /\ summary.successful + summary.failed = SumAdds(Workers)

\* C15 witness: three threads have added one result each, two of them
\* successful, and all calls have returned.
C15_Witness ==
    /\ \A w \in Workers : workers.threads[w].pc = "idle" /\ workers.threads[w].adds = 1
    /\ Len(summary.results) = 3
    /\ summary.successful = 2
    /\ summary.failed = 1

(***************************************************************************)
(* ValidationCLI.run_validation                                            *)
(***************************************************************************)
MaxRegions == 2     \* most regions named on the command line
MaxPerRegion == 1   \* most successful / failed validations of a region

\* Totals of the summary of one region.
RegionOutcomes ==
    {[successful |-> s, failed |-> f] : s, f \in 0..MaxPerRegion}

\* --workers values tried
WorkerCounts == {1, 4}

\* Parameters validate_region can be called with, and the keywords
\* run_validation passes to it.
ValidateRegionParams == {"region", "custom_rule_names", "verbose"}
CallKeywords == {"region", "custom_rule_names", "verbose", "max_workers"}

\* Python binds a call only when every keyword names a parameter; otherwise
\* the call raises TypeError before the body runs.
Binds(params, keywords) == keywords \subseteq params

notCliVars == <<ruleVars, expandVars, formatVars, batchVars,
                http, setup, csv, workers, pool, svc, inst>>

\* run() hands over at least one region.
InitCli ==
    /\ IdleRules /\ IdleExpand /\ IdleFormat /\ IdleBatch
    /\ IdleClient /\ IdleSetup /\ IdleCsv /\ IdleWorkers /\ IdlePool /\ IdleSvc /\ IdleInst
    /\ \E plan \in SeqsUpTo(RegionOutcomes, MaxRegions) \ {<<>>},
          n \in WorkerCounts :
          cli = [NoCli EXCEPT !.phase = "start", !.plan = plan, !.workers = n]

\* except Exception / sys.exit(1) / finally: the validator, if any, is closed.
ExitWith(c, status) ==
    [c EXCEPT !.phase = "exited", !.status = status, !.closed = c.constructed]

\* The end of run_validation: sys.exit(1) when total_failed > 0, otherwise
\* "All validations passed" and the process ends with status 0.
OverallStatus(total_failed) == IF total_failed > 0 THEN 1 ELSE 0

\* DatabaseService and BatchValidator are constructed, the totals start at 0;
\* a constructor that raises ends the process with status 1.
CliConstruct(ok) ==
    /\ cli.phase = "start"
    /\ cli' = IF ok
              THEN [cli EXCEPT !.phase = "regions", !.constructed = TRUE, !.next = 1]
              ELSE ExitWith(cli, 1)
    /\ UNCHANGED notCliVars

\* One pass of the loop over the regions; after the last region the overall
\* summary: sys.exit(1) when total_failed > 0, otherwise the function returns
\* and the process ends with status 0.
CliRegion ==
    /\ cli.phase = "regions"
    /\ IF ~Binds(ValidateRegionParams, CallKeywords)
       THEN cli' = ExitWith(cli, 1)
       ELSE LET summary_ == cli.plan[cli.next]
                c == [cli EXCEPT !.total_failed = @ + summary_.failed,
                                 !.total_successful = @ + summary_.successful,
                                 !.next = @ + 1]
            IN  cli' = IF cli.next < Len(cli.plan) THEN c
                       ELSE ExitWith(c, OverallStatus(c.total_failed))
    /\ UNCHANGED notCliVars

\* Ctrl-C while the try block runs: except KeyboardInterrupt.
CliInterrupt ==
    /\ cli.phase \in {"start", "regions"}
    /\ cli' = [ExitWith(cli, 130) EXCEPT !.interrupted = TRUE]
    /\ UNCHANGED notCliVars

NextCli ==
    \/ \E ok \in BOOLEAN : CliConstruct(ok)
    \/ CliRegion
    \/ CliInterrupt

SpecCli == InitCli /\ [][NextCli]_vars

(***************************************************************************)
(* Properties of the exit status                                           *)
(***************************************************************************)
AnyFailed(plan) == \E i \in 1..Len(plan) : plan[i].failed > 0

\* C17 (as stated): once the validator is built, the process ends with status
\* 130 on interrupt; otherwise with 0 exactly when no validation of any
\* requested region failed and with 1 exactly when at least one failed,
\* whatever the number of workers.
C17_ExitStatus ==
    (cli.phase = "exited" /\ cli.constructed) =>
        /\ cli.interrupted => cli.status = 130
        /\ ~cli.interrupted =>
              /\ cli.status = 0 <=> ~AnyFailed(cli.plan)
              /\ cli.status = 1 <=> AnyFailed(cli.plan)

LoaderPoolSize == 5
LoaderMaxOverflow == 15
ServicePoolSize == 3
ServiceMaxOverflow == 7

\* A QueuePool hands out at most pool_size + max_overflow connections.
Capacity(pool_size, max_overflow) == pool_size + max_overflow

LoaderOps == {"load", "load_query"}
RepositoryOps == {"save_validation_run", "save_expectation_results", "save_rules_applied"}

\* A loader runs on an engine (pooled) or on one pyodbc connection given to it.
LoaderConnections == {"engine", "pyodbc_connection"}

notPoolVars == <<ruleVars, expandVars, formatVars, batchVars,
                 http, setup, csv, workers, cli, svc, inst>>

InitPool ==
    /\ IdleRules /\ IdleExpand /\ IdleFormat /\ IdleBatch
    /\ IdleClient /\ IdleSetup /\ IdleCsv /\ IdleWorkers /\ IdleCli /\ IdleSvc /\ IdleInst
    /\ pool = NoPool

Ended(c, after, outcome) == [c EXCEPT !.after = after, !.outcome = outcome]

\* load / load_query up to the connection: engine.connect() checks one
\* connection out, or raises when the pool has none left; a loader built on
\* a pyodbc connection uses that connection.
LoadBegin(op, via) ==
    /\ pool.inflight = NoDbCall
    /\ LET c == [NoDbCall EXCEPT !.op = op, !.via = via, !.before = pool.loader]
       IN  IF via = "engine"
           THEN IF pool.loader < Capacity(LoaderPoolSize, LoaderMaxOverflow)
                THEN pool' = [pool EXCEPT !.loader = @ + 1, !.inflight = c]
                ELSE pool' = [pool EXCEPT !.last = Ended(c, pool.loader, "raises"),
                                          !.exhausted = TRUE]
           ELSE pool' = [pool EXCEPT !.inflight = c]
    /\ UNCHANGED notPoolVars

\* pd.read_sql returns or raises; the finally clause of load and the with
\* block of load_query close the connection taken from the engine.
LoadEnd(ok) ==
    /\ pool.inflight.op \in LoaderOps
    /\ LET left == IF pool.inflight.via = "engine" THEN pool.loader - 1 ELSE pool.loader
       IN  pool' = [pool EXCEPT
                      !.loader = left,
                      !.inflight = NoDbCall,
                      !.last = Ended(pool.inflight, left,
                                     IF ok THEN "returns" ELSE "raises")]
    /\ UNCHANGED notPoolVars

\* A save up to the connection: save_expectation_results and
\* save_rules_applied raise ValueError for a missing run id before anything
\* else; then get_connection() checks a connection out of the service pool.
SaveBegin(op, has_run_id) ==
    /\ pool.inflight = NoDbCall
    /\ LET c == [NoDbCall EXCEPT !.op = op, !.via = "get_connection",
                               !.before = pool.service]
       IN  IF op # "save_validation_run" /\ ~has_run_id
           THEN pool' = [pool EXCEPT !.last = Ended(c, pool.service, "raises")]
           ELSE IF pool.service < Capacity(ServicePoolSize, ServiceMaxOverflow)
           THEN pool' = [pool EXCEPT !.service = @ + 1, !.inflight = c]
           ELSE pool' = [pool EXCEPT !.last = Ended(c, pool.service, "raises"),
                                     !.exhausted = TRUE]
    /\ UNCHANGED notPoolVars

\* The rest of a save: conn.cursor() (AttributeError on the Connection of the
\* shipped service), the statements, commit or rollback and re-raise, and
\* cursor.close() in the finally clause.  No path closes conn: it stays
\* checked out and is left to the garbage collector.
SaveEnd(service, ok) ==
    /\ pool.inflight.op \in RepositoryOps
    /\ pool' = [pool EXCEPT
                  !.garbage = @ + 1,
                  !.inflight = NoDbCall,
                  !.last = Ended(pool.inflight, pool.service,
                                 IF service = "dbapi" /\ ok THEN "returns"
                                 ELSE "raises")]
    /\ UNCHANGED notPoolVars

\* The garbage collector finalises a connection nothing refers to; the pool
\* takes it back.  When this happens is up to the interpreter.
Collect ==
    /\ pool.garbage > 0
    /\ pool' = [pool EXCEPT !.garbage = @ - 1, !.service = @ - 1]
    /\ UNCHANGED notPoolVars

NextPool ==
    \/ \E op \in LoaderOps, via \in LoaderConnections : LoadBegin(op, via)
    \/ \E ok \in BOOLEAN : LoadEnd(ok)
    \/ \E op \in RepositoryOps, has_run_id \in BOOLEAN : SaveBegin(op, has_run_id)
    \/ \E service \in Services, ok \in BOOLEAN : SaveEnd(service, ok)
    \/ Collect

SpecPool == InitPool /\ [][NextPool]_vars

(***************************************************************************)
(* Properties of the connection pools                                      *)
(***************************************************************************)
\* C19 (as stated): when a call of load, load_query, save_validation_run,
\* save_expectation_results or save_rules_applied has ended, by return or by
\* exception, its pool has as many connections checked out as before the
\* call, and no call ever finds its pool exhausted.
C19_ConnectionsReturned ==
    /\ pool.last.op # "none" => pool.last.after = pool.last.before
    /\ ~pool.exhausted

(***************************************************************************)
(* validate_exchange requests: service, processor, validator, suite        *)
(***************************************************************************)
MaxRequests == 2    \* most requests served in one run
SuiteNameLimit == 1000

\* Suite names: 0 is "instruments_suite", k > 0 is "instruments_suite_k".
\* What a context may already hold when it is obtained: nothing in ephemeral
\* mode; the fallback gx.get_context() may open a project with stored suites.
StoredSuites == {<<>>, <<0>>}

NewContext(owner, suites) ==
    [owner |-> owner, data_sources |-> <<>>, suites |-> suites]

NewRequest(t, p, service) ==
    [thread |-> t, product_type |-> p, service |-> service, validator |-> 0,
     context |-> 0, attempts |-> 0, uids |-> <<>>, suite |-> 0,
     suite_name |-> -1, phase |-> "service"]

notSvcVars == <<ruleVars, expandVars, formatVars, batchVars,
                http, setup, csv, workers, cli, pool, inst>>

InitSvc ==
    /\ IdleRules /\ IdleExpand /\ IdleFormat /\ IdleBatch
    /\ IdleClient /\ IdleSetup /\ IdleCsv /\ IdleWorkers /\ IdleCli /\ IdlePool
    /\ IdleInst
    /\ svc = NoSvc

\* get_validation_service: the service cached for this thread and product
\* type, created on first use.
get_validation_service(s, t, p) ==
    IF s.local[<<t, p>>] # 0 THEN s
    ELSE [s EXCEPT !.local[<<t, p>>] = s.fresh + 1, !.fresh = @ + 1]

\* A request arrives on a thread that is serving none.
HandleRequest(t, p) ==
    /\ svc.active[t] = 0
    /\ Len(svc.requests) < MaxRequests
    /\ LET s == get_validation_service(svc, t, p)
       IN  svc' = [s EXCEPT
                     !.requests = Append(@, NewRequest(t, p, s.local[<<t, p>>])),
                     !.active[t] = Len(svc.requests) + 1]
    /\ UNCHANGED notSvcVars

\* The thread is done with its request.
Leave(s, t, phase) ==
    [s EXCEPT !.requests[s.active[t]].phase = phase, !.active[t] = 0]

\* A validator that an earlier request on the same service left behind.
ReusedValidator(s, r) ==
    IF \E q \in 1..(r - 1) :
          s.requests[q].service = s.requests[r].service /\ s.requests[q].validator # 0
    THEN LET q == CHOOSE q \in 1..(r - 1) :
                     /\ s.requests[q].service = s.requests[r].service
                     /\ s.requests[q].validator # 0
         IN  s.requests[q].validator
    ELSE s.fresh + 1

\* ProcessorFactory.create builds a processor, whose constructor builds an
\* InstrumentValidator: a new object on every request.
NewValidator(s, r) == s.fresh + 1

\* How one attempt of _setup_data_source ends: success; a transient error
\* after which get_context gives a new context ("recreated") or raises
\* ("kept"); an error that is not transient.
AttemptOutcomes == {"ok", "recreated", "kept", "other"}
Plan(first, second, third) == [i \in 1..MAX_RETRIES |-> <<first, second, third>>[i]]
SetupPlans ==
    {Plan("ok", "ok", "ok"), Plan("kept", "ok", "ok"), Plan("recreated", "ok", "ok"),
     Plan("kept", "recreated", "kept"), Plan("other", "ok", "ok")}

\* One attempt: a new uid, the data source src_<uid> registered in the
\* current context of the validator, then the outcome.
SetupAttempt(s, r, outcome) ==
    LET uid == s.fresh + 1
        s1 == [s EXCEPT
                 !.fresh = uid,
                 !.requests[r].uids = Append(@, uid),
                 !.requests[r].attempts = @ + 1,
                 !.contexts[s.requests[r].context].data_sources = Append(@, uid)]
    IN  IF outcome = "recreated"
        THEN [s1 EXCEPT !.contexts = Append(@, NewContext(r, <<>>)),
                        !.requests[r].context = Len(s1.contexts) + 1]
        ELSE s1

\* The loop of _setup_data_source from the given attempt on: "ready" after a
\* successful attempt, "failed" after an error that is not transient or
\* after MAX_RETRIES transient ones.
RECURSIVE SetupFrom(_, _, _, _)
SetupFrom(s, r, plan, attempt) ==
    IF attempt > MAX_RETRIES THEN [s EXCEPT !.requests[r].phase = "failed"]
    ELSE LET s1 == SetupAttempt(s, r, plan[attempt])
         IN  IF plan[attempt] = "ok" THEN [s1 EXCEPT !.requests[r].phase = "ready"]
             ELSE IF plan[attempt] = "other" THEN [s1 EXCEPT !.requests[r].phase = "failed"]
             ELSE SetupFrom(s1, r, plan, attempt + 1)

\* validate_exchange up to the processor: ProcessorFactory.create, the
\* validator with its context (ephemeral, or the fallback context; "none":
\* both calls of get_context raise) and its data source.  A constructor that
\* raises ends the request with an error.
CreateProcessor(t, mode, stored, plan) ==
    /\ svc.active[t] # 0
    /\ svc.requests[svc.active[t]].phase = "service"
    /\ mode = "ephemeral" => stored = <<>>
    /\ LET r == svc.active[t]
           s1 == [svc EXCEPT
                    !.fresh = @ + 1,
                    !.contexts = Append(@, NewContext(r, stored)),
                    !.requests[r].validator = NewValidator(svc, r),
                    !.requests[r].context = Len(svc.contexts) + 1]
           s2 == SetupFrom(s1, r, plan, 1)
       IN  IF mode = "none"
           THEN svc' = Leave(svc, t, "failed")
           ELSE svc' = IF s2.requests[r].phase = "failed"
                       THEN Leave(s2, t, "failed") ELSE s2
    /\ UNCHANGED notSvcVars

\* The loop of create_expectation_suite: suite_name, suite_name_1, ... until
\* the context accepts the name.
RECURSIVE UniqueSuiteName(_, _)
UniqueSuiteName(existing, counter) ==
    IF \A i \in 1..Len(existing) : existing[i] # counter THEN counter
    ELSE IF counter + 1 > SuiteNameLimit THEN -1
    ELSE UniqueSuiteName(existing, counter + 1)

\* processor.process: validator.validate creates the suite in the context of
\* the validator and runs the batch against it; the request is answered.
Validate(t) ==
    /\ svc.active[t] # 0
    /\ svc.requests[svc.active[t]].phase = "ready"
    /\ LET r == svc.active[t]
           c == svc.requests[r].context
           name == UniqueSuiteName(svc.contexts[c].suites, 0)
       IN  svc' = Leave([svc EXCEPT
                           !.fresh = @ + 1,
                           !.contexts[c].suites = Append(@, name),
                           !.requests[r].suite = svc.fresh + 1,
                           !.requests[r].suite_name = name], t, "done")
    /\ UNCHANGED notSvcVars

NextSvc ==
    \/ \E t \in Threads, p \in ProductTypes : HandleRequest(t, p)
    \/ \E t \in Threads, mode \in {"ephemeral", "regular", "none"},
          stored \in StoredSuites, plan \in SetupPlans :
          CreateProcessor(t, mode, stored, plan)
    \/ \E t \in Threads : Validate(t)

SpecSvc == InitSvc /\ [][NextSvc]_vars

(***************************************************************************)
(* Properties of the requests                                              *)
(***************************************************************************)
NoRepeat(seq) == \A i, j \in 1..Len(seq) : i # j => seq[i] # seq[j]

\* C20: no validator, context or suite of one request is used by another
\* request, on another thread or later on the same thread with the same
\* thread-local service; every setup attempt draws a uid no other attempt
\* has, so data-source names do not repeat; suite names do not repeat within
\* a context.
C20_NothingSharedAcrossRequests ==
    /\ \A q, r \in 1..Len(svc.requests) : q # r =>
          LET a == svc.requests[q]
              b == svc.requests[r]
          IN  /\ a.validator # 0 => a.validator # b.validator
              /\ a.context # 0 => a.context # b.context
              /\ a.suite # 0 => a.suite # b.suite
              /\ \A i \in 1..Len(a.uids), j \in 1..Len(b.uids) : a.uids[i] # b.uids[j]
    /\ \A r \in 1..Len(svc.requests) :
          /\ NoRepeat(svc.requests[r].uids)
          /\ Len(svc.requests[r].uids) = svc.requests[r].attempts
          /\ svc.requests[r].context # 0 =>
                svc.contexts[svc.requests[r].context].owner = r
    /\ \A c \in 1..Len(svc.contexts) :
          /\ NoRepeat(svc.contexts[c].data_sources)
          /\ NoRepeat(svc.contexts[c].suites)

\* Two requests served one after the other by the same thread with the same
\* thread-local service, both answered: the first in a context that already
\* held "instruments_suite", the second after a second setup attempt in the
\* context it kept.
C20_Witness ==
    /\ Len(svc.requests) = 2
    /\ \A r \in 1..2 : svc.requests[r].phase = "done"
    /\ svc.requests[1].thread = svc.requests[2].thread
    /\ svc.requests[1].service = svc.requests[2].service
    /\ svc.requests[1].validator # svc.requests[2].validator
    /\ svc.requests[1].suite_name = 1
    /\ svc.requests[2].attempts = 2
    /\ Len(svc.contexts[svc.requests[2].context].data_sources) = 2
(***************************************************************************)
(* instrument_controller.get_service under concurrent requests             *)
(***************************************************************************)
MaxGets == 2        \* get_service calls per thread

notInstVars == <<ruleVars, expandVars, formatVars, batchVars,
                 http, setup, csv, workers, cli, pool, svc>>

InitInst ==
    /\ IdleRules /\ IdleExpand /\ IdleFormat /\ IdleBatch
    /\ IdleClient /\ IdleSetup /\ IdleCsv /\ IdleWorkers /\ IdleCli /\ IdlePool
    /\ IdleSvc
    /\ inst = NoInst

\* A request thread enters get_service(product_type).
GetServiceCall(t, p) ==
    /\ inst.threads[t].pc \in {"idle", "done"}
    /\ inst.threads[t].gets < MaxGets
    /\ inst' = [inst EXCEPT !.threads[t] =
                   [pc |-> "check", product_type |-> p, made |-> 0, ret |-> 0,
                    gets |-> @.gets + 1]]
    /\ UNCHANGED notInstVars

\* if product_type not in _services_cache:
GetServiceCheck(t) ==
    /\ inst.threads[t].pc = "check"
    /\ inst' = [inst EXCEPT !.threads[t].pc =
                   IF inst.cache[inst.threads[t].product_type] = 0
                   THEN "factory" ELSE "return"]
    /\ UNCHANGED notInstVars

\* if _loader_factory is None: _loader_factory = LoaderFactory()
GetServiceFactory(t) ==
    /\ inst.threads[t].pc = "factory"
    /\ inst' = IF inst.factory = 0
               THEN [inst EXCEPT !.factories = @ + 1, !.factory = inst.factories + 1,
                                 !.threads[t].pc = "create"]
               ELSE [inst EXCEPT !.threads[t].pc = "create"]
    /\ UNCHANGED notInstVars

\* loader = create_loader(); exchange_map = ...; InstrumentService(...)
GetServiceCreate(t) ==
    /\ inst.threads[t].pc = "create"
    /\ inst' = [inst EXCEPT !.services = Append(@, inst.threads[t].product_type),
                            !.threads[t].made = Len(inst.services) + 1,
                            !.threads[t].pc = "store"]
    /\ UNCHANGED notInstVars

\* _services_cache[product_type] = <the new service>
GetServiceStore(t) ==
    /\ inst.threads[t].pc = "store"
    /\ inst' = [inst EXCEPT !.cache[inst.threads[t].product_type] = inst.threads[t].made,
                            !.threads[t].pc = "return"]
    /\ UNCHANGED notInstVars

\* return _services_cache[product_type]
GetServiceReturn(t) ==
    /\ inst.threads[t].pc = "return"
    /\ inst' = [inst EXCEPT !.threads[t].ret = inst.cache[inst.threads[t].product_type],
                            !.threads[t].pc = "done"]
    /\ UNCHANGED notInstVars

NextInst ==
    \E t \in Threads :
        \/ \E p \in InstProductTypes : GetServiceCall(t, p)
        \/ GetServiceCheck(t) \/ GetServiceFactory(t) \/ GetServiceCreate(t)
        \/ GetServiceStore(t) \/ GetServiceReturn(t)

SpecInst == InitInst /\ [][NextInst]_vars

(***************************************************************************)
(* Properties of get_service                                               *)
(***************************************************************************)
\* C29: at most one InstrumentService is ever constructed per product type,
\* and the callers that asked for the same product type hold the same
\* instance.
C29_OneServicePerProductType ==
    /\ \A p \in InstProductTypes :
         Cardinality({i \in 1..Len(inst.services) : inst.services[i] = p}) <= 1
    /\ \A t, u \in Threads :
         (/\ inst.threads[t].pc = "done" /\ inst.threads[u].pc = "done"
          /\ inst.threads[t].product_type = inst.threads[u].product_type)
         => inst.threads[t].ret = inst.threads[u].ret

====
